---- MODULE Spec2Model ----
(***************************************************************************)
(* GRID editor bridge (Unreal Engine plugin): FGRIDBridge, the accept loop *)
(* FGRIDServerRunnable and the game-thread task queue they share.          *)
(*                                                                         *)
(* Three parties take steps: the game (owner) thread, which calls          *)
(* Initialize()/Shutdown() and drains the AsyncTask queue; the server      *)
(* thread, which runs FGRIDServerRunnable::Run(); and the clients and the  *)
(* operating system, which decide what a socket call returns.              *)
(***************************************************************************)
EXTENDS Integers, Sequences, FiniteSets, TLC

(***************************************************************************)
(* Bounds of the model.                                                    *)
(***************************************************************************)
\* client connections the listener accepts over a run
MaxConns == 2
\* listener sockets Initialize() creates over a run
MaxSockets == 2
\* threads calling into FServiceContext
MaxThreads == 2
\* RegisterTool calls between two FGRIDToolRegistry::Shutdown() calls
MaxTools == 3

(***************************************************************************)
(* Program constants.                                                      *)
(***************************************************************************)
\* ports the OS may assign to a bind on port 0
Ports == {49152, 50123}

(***************************************************************************)
(* Text.  An FString is a TLA+ string; JSON text is the sequence of the    *)
(* tokens the writer emits.                                                *)
(***************************************************************************)
\* FString compares ignoring case: operator== is Stricmp, and StartsWith
\* searches with ESearchCase::IgnoreCase unless told otherwise
CaseMap ==
    ("A" :> "a") @@ ("B" :> "b") @@ ("C" :> "c") @@ ("D" :> "d") @@ ("E" :> "e") @@ ("F" :> "f") @@
    ("G" :> "g") @@ ("H" :> "h") @@ ("I" :> "i") @@ ("J" :> "j") @@ ("K" :> "k") @@ ("L" :> "l") @@
    ("M" :> "m") @@ ("N" :> "n") @@ ("O" :> "o") @@ ("P" :> "p") @@ ("Q" :> "q") @@ ("R" :> "r") @@
    ("S" :> "s") @@ ("T" :> "t") @@ ("U" :> "u") @@ ("V" :> "v") @@ ("W" :> "w") @@ ("X" :> "x") @@
    ("Y" :> "y") @@ ("Z" :> "z")
ToLowerChar(c) == IF c \in DOMAIN CaseMap THEN CaseMap[c] ELSE c
RECURSIVE ToLower(_)
ToLower(s) == IF s = "" THEN "" ELSE ToLowerChar(SubSeq(s, 1, 1)) \o ToLower(SubSeq(s, 2, Len(s)))

\* FString::operator==
Equals(a, b) == ToLower(a) = ToLower(b)

\* FString::StartsWith
StartsWith(s, p) == Len(s) >= Len(p) /\ Equals(SubSeq(s, 1, Len(p)), p)

Quote(s) == "\"" \o s \o "\""

DigitChar(d) == SubSeq("0123456789", d + 1, d + 1)

\* FString::FromInt for a non-negative value: the decimal digits
RECURSIVE FromInt(_)
FromInt(n) == IF n < 10 THEN DigitChar(n) ELSE FromInt(n \div 10) \o DigitChar(n % 10)

(***************************************************************************)
(* FJsonObject: the fields in insertion order.  A field holds a scalar     *)
(* (t, v) or a nested object (o).                                          *)
(***************************************************************************)
BoolField(k, b) == [k |-> k, t |-> "bool", v |-> IF b THEN "true" ELSE "false", o |-> <<>>]
StringField(k, s) == [k |-> k, t |-> "string", v |-> s, o |-> <<>>]
NumberField(k, s) == [k |-> k, t |-> "number", v |-> s, o |-> <<>>]
ObjectField(k, obj) == [k |-> k, t |-> "object", v |-> "", o |-> obj]

HasField(obj, k) == \E i \in 1..Len(obj) : obj[i].k = k
GetField(obj, k) == obj[CHOOSE i \in 1..Len(obj) : obj[i].k = k]

\* a TSharedPtr<FJsonObject>: null, or an object
NullObject == [valid |-> FALSE, fields |-> <<>>]
MakeObject(fields) == [valid |-> TRUE, fields |-> fields]

\* FJsonSerializer::Serialize through a TJsonWriter
RECURSIVE WriteMembers(_, _)
WriteValue(f) ==
    CASE f.t = "string" -> <<Quote(f.v)>>
      [] f.t = "object" -> <<"{">> \o WriteMembers(f.o, 1) \o <<"}">>
      [] OTHER -> <<f.v>>
WriteMembers(obj, i) ==
    IF i > Len(obj) THEN <<>>
    ELSE (IF i > 1 THEN <<",">> ELSE <<>>)
         \o <<Quote(obj[i].k), ":">> \o WriteValue(obj[i])
         \o WriteMembers(obj, i + 1)
Serialize(obj) == <<"{">> \o WriteMembers(obj, 1) \o <<"}">>

(***************************************************************************)
(* Response envelopes.                                                     *)
(***************************************************************************)
\* an error envelope without its message
CreateErrorResponseCodeOnly(ErrorCode, ErrorMessage) ==
    << BoolField("success", FALSE), StringField("error_code", ErrorCode) >>

CreateErrorResponse(ErrorCode, ErrorMessage) ==
    << BoolField("success", FALSE),
       StringField("error_code", ErrorCode),
       StringField("error", ErrorMessage) >>

CreateSuccessResponse(Data) ==
    << BoolField("success", TRUE) >>
    \o (IF Data.valid THEN << ObjectField("data", Data.fields) >> ELSE <<>>)

(***************************************************************************)
(* Handler groups.  Each HandleCommand is a dispatch by name (FString ==,   *)
(* so ignoring case); a stub answers NOT_IMPLEMENTED.  The engine is the    *)
(* input h: h.world says whether an editor world exists, h.ok whether the  *)
(* engine call succeeded.                                                  *)
(***************************************************************************)
HostOutcomes == [world : BOOLEAN, ok : BOOLEAN]

\* FJsonObject::GetStringField: the empty string when the field is absent
GetStringField(Params, k) ==
    IF HasField(Params.fields, k) /\ GetField(Params.fields, k).t = "string"
    THEN GetField(Params.fields, k).v ELSE ""

\* the method a dispatch table names for a command
MethodOf(table, cmd) == (CHOOSE e \in table : e[1] = cmd)[2]
Names(table) == {e[1] : e \in table}

\* FActorCommands::CreateError, CreateSuccess
ActorCreateError(Code, Message) ==
    << BoolField("success", FALSE), StringField("error_code", Code), StringField("error", Message) >>
ActorCreateSuccess(Data) ==
    << BoolField("success", TRUE) >>
    \o (IF Data.valid THEN << ObjectField("data", Data.fields) >> ELSE <<>>)

ActorStubs ==
    { <<"actor_delete", "DeleteActor">>, <<"actor_get_info", "GetActorInfo">>,
      <<"actor_get_transform", "GetTransform">>, <<"actor_set_transform", "SetTransform">>,
      <<"actor_set_location", "SetLocation">>, <<"actor_set_rotation", "SetRotation">>,
      <<"actor_set_scale", "SetScale">>, <<"actor_focus", "FocusActor">>,
      <<"actor_select", "SelectActor">>, <<"actor_rename", "RenameActor">> }

ActorListing(Params, h) ==
    IF ~h.world THEN ActorCreateError("NO_WORLD", "No active world")
    ELSE ActorCreateSuccess(MakeObject(<< NumberField("count", "0") >>))

SpawnActor(Params, h) ==
    IF ~h.world THEN ActorCreateError("NO_WORLD", "No active world")
    ELSE IF ~h.ok THEN ActorCreateError("SPAWN_FAILED", "Failed to spawn actor")
    ELSE ActorCreateSuccess(MakeObject(<< StringField("class", GetStringField(Params, "class")) >>))

ActorHandleCommand(CommandType, Params, h) ==
    IF ToLower(CommandType) \in {"actor_list", "actor_find"} THEN ActorListing(Params, h)
    ELSE IF Equals(CommandType, "actor_spawn") THEN SpawnActor(Params, h)
    ELSE IF ToLower(CommandType) \in Names(ActorStubs)
    THEN ActorCreateError("NOT_IMPLEMENTED",
                          MethodOf(ActorStubs, ToLower(CommandType)) \o " not yet implemented")
    ELSE ActorCreateError("UNKNOWN_COMMAND", "Unknown actor command: " \o CommandType)

\* FBlueprintCommands::CreateError, CreateSuccess
BlueprintCreateError(Code, Message) ==
    << BoolField("success", FALSE), StringField("error_code", Code), StringField("error", Message) >>
BlueprintCreateSuccess(Data) ==
    << BoolField("success", TRUE) >>
    \o (IF Data.valid THEN << ObjectField("data", Data.fields) >> ELSE <<>>)

BlueprintStubs ==
    { <<"blueprint_reparent", "ReparentBlueprint">>, <<"blueprint_get_property", "GetProperty">>,
      <<"blueprint_set_property", "SetProperty">>, <<"blueprint_add_component", "AddComponent">>,
      <<"blueprint_remove_component", "RemoveComponent">>,
      <<"blueprint_get_hierarchy", "GetComponentHierarchy">>,
      <<"blueprint_add_variable", "AddVariable">>, <<"blueprint_remove_variable", "RemoveVariable">>,
      <<"blueprint_list_variables", "ListVariables">>, <<"blueprint_add_function", "AddFunction">>,
      <<"blueprint_remove_function", "RemoveFunction">>, <<"blueprint_list_functions", "ListFunctions">>,
      <<"blueprint_discover_nodes", "DiscoverNodes">>, <<"blueprint_create_node", "CreateNode">>,
      <<"blueprint_delete_node", "DeleteNode">>, <<"blueprint_connect_nodes", "ConnectNodes">>,
      <<"blueprint_list_nodes", "ListNodes">> }

CreateBlueprint(Params, h) ==
    IF GetStringField(Params, "path") = ""
    THEN BlueprintCreateError("MISSING_PATH", "Blueprint path is required")
    ELSE IF ~h.ok THEN BlueprintCreateError("CREATE_FAILED", "Failed to create blueprint")
    ELSE BlueprintCreateSuccess(MakeObject(<< StringField("path", GetStringField(Params, "path")) >>))

LoadedBlueprint(Params, h) ==
    IF ~h.ok
    THEN BlueprintCreateError("NOT_FOUND", "Blueprint not found: " \o GetStringField(Params, "path"))
    ELSE BlueprintCreateSuccess(MakeObject(<< StringField("path", GetStringField(Params, "path")) >>))

BlueprintHandleCommand(CommandType, Params, h) ==
    IF Equals(CommandType, "blueprint_create") THEN CreateBlueprint(Params, h)
    ELSE IF ToLower(CommandType) \in {"blueprint_compile", "blueprint_get_info"} THEN LoadedBlueprint(Params, h)
    ELSE IF ToLower(CommandType) \in Names(BlueprintStubs)
    THEN BlueprintCreateError("NOT_IMPLEMENTED",
                              MethodOf(BlueprintStubs, ToLower(CommandType)) \o " not yet implemented")
    ELSE BlueprintCreateError("UNKNOWN_COMMAND", "Unknown blueprint command: " \o CommandType)

\* FMaterialCommands::CreateError, CreateSuccess
MaterialCreateError(Code, Message) ==
    << BoolField("success", FALSE), StringField("error_code", Code), StringField("error", Message) >>
MaterialCreateSuccess(Data) ==
    << BoolField("success", TRUE) >>
    \o (IF Data.valid THEN << ObjectField("data", Data.fields) >> ELSE <<>>)

MaterialStubs ==
    {"material_create_instance", "material_get_info", "material_compile", "material_save"}

CreateMaterial(Params, h) ==
    IF GetStringField(Params, "path") = ""
    THEN MaterialCreateError("MISSING_PATH", "Material path required")
    ELSE IF ~h.ok THEN MaterialCreateError("CREATE_FAILED", "Failed to create material")
    ELSE MaterialCreateSuccess(MakeObject(<< StringField("path", GetStringField(Params, "path")) >>))

MaterialHandleCommand(CommandType, Params, h) ==
    IF Equals(CommandType, "material_create") THEN CreateMaterial(Params, h)
    ELSE IF ToLower(CommandType) \in MaterialStubs
    THEN MaterialCreateError("NOT_IMPLEMENTED", "Not implemented")
    ELSE MaterialCreateError("UNKNOWN_COMMAND", "Unknown material command: " \o CommandType)

\* FWidgetCommands::CreateError, CreateSuccess
WidgetCreateError(Code, Message) ==
    << BoolField("success", FALSE), StringField("error_code", Code), StringField("error", Message) >>
WidgetCreateSuccess(Data) ==
    << BoolField("success", TRUE) >>
    \o (IF Data.valid THEN << ObjectField("data", Data.fields) >> ELSE <<>>)

WidgetStubs ==
    {"widget_create", "widget_list_components", "widget_add_component",
     "widget_remove_component", "widget_get_property", "widget_set_property",
     "widget_list_properties", "widget_discover_types", "widget_validate",
     "widget_get_events", "widget_bind_events"}

WidgetHandleCommand(CommandType, Params, h) ==
    IF ToLower(CommandType) \in WidgetStubs
    THEN WidgetCreateError("NOT_IMPLEMENTED", "Not implemented")
    ELSE WidgetCreateError("UNKNOWN_COMMAND", "Unknown widget command: " \o CommandType)

\* FAssetCommands::CreateError, CreateSuccess
AssetCreateError(Code, Message) ==
    << BoolField("success", FALSE), StringField("error_code", Code), StringField("error", Message) >>
AssetCreateSuccess(Data) ==
    << BoolField("success", TRUE) >>
    \o (IF Data.valid THEN << ObjectField("data", Data.fields) >> ELSE <<>>)

AssetStubs ==
    {"asset_import_texture", "asset_export_texture", "asset_delete", "asset_duplicate",
     "asset_save", "asset_save_all", "asset_list_references", "asset_open"}

AssetSearch(Params, h) ==
    AssetCreateSuccess(MakeObject(<< NumberField("count", "0") >>))

AssetHandleCommand(CommandType, Params, h) ==
    IF Equals(CommandType, "asset_search") THEN AssetSearch(Params, h)
    ELSE IF ToLower(CommandType) \in AssetStubs
    THEN AssetCreateError("NOT_IMPLEMENTED", "Not implemented")
    ELSE AssetCreateError("UNKNOWN_COMMAND", "Unknown asset command: " \o CommandType)

\* FInputCommands::CreateError, CreateSuccess
InputCreateError(Code, Message) ==
    << BoolField("success", FALSE), StringField("error_code", Code), StringField("error", Message) >>
InputCreateSuccess(Data) ==
    << BoolField("success", TRUE) >>
    \o (IF Data.valid THEN << ObjectField("data", Data.fields) >> ELSE <<>>)

InputStubs ==
    {"input_create_action", "input_list_actions", "input_create_context",
     "input_list_contexts", "input_add_mapping", "input_remove_mapping",
     "input_get_mappings", "input_get_keys", "input_add_modifier",
     "input_remove_modifier", "input_add_trigger", "input_remove_trigger"}

InputHandleCommand(CommandType, Params, h) ==
    IF ToLower(CommandType) \in InputStubs
    THEN InputCreateError("NOT_IMPLEMENTED", "Not implemented")
    ELSE InputCreateError("UNKNOWN_COMMAND", "Unknown input command: " \o CommandType)

(***************************************************************************)
(* Operations a group's header declares and its .cpp defines (as           *)
(* NOT_IMPLEMENTED stubs) for which HandleCommand has no branch.  The      *)
(* command names follow the group's naming of its routed operations.       *)
(***************************************************************************)
ActorUnrouted ==
    { <<"actor_get_property", "GetProperty">>, <<"actor_set_property", "SetProperty">> }

BlueprintUnrouted == { <<"blueprint_set_component_property", "SetComponentProperty">> }

MaterialUnrouted ==
    { <<"material_get_property", "GetProperty">>, <<"material_set_property", "SetProperty">>,
      <<"material_list_parameters", "ListParameters">>,
      <<"material_set_parameter", "SetParameter">>,
      <<"material_discover_node_types", "DiscoverNodeTypes">>,
      <<"material_create_node", "CreateNode">>, <<"material_delete_node", "DeleteNode">>,
      <<"material_connect_nodes", "ConnectNodes">>, <<"material_list_nodes", "ListNodes">> }

InputUnrouted ==
    { <<"input_get_action_properties", "GetActionProperties">>,
      <<"input_configure_action", "ConfigureAction">>,
      <<"input_list_modifiers", "ListModifiers">>, <<"input_list_triggers", "ListTriggers">> }

\* the commands HandleCommand has a branch for, by group
ActorRouted == {"actor_list", "actor_find", "actor_spawn"} \cup Names(ActorStubs)
BlueprintRouted ==
    {"blueprint_create", "blueprint_compile", "blueprint_get_info"} \cup Names(BlueprintStubs)
MaterialRouted == {"material_create"} \cup MaterialStubs
WidgetRouted == WidgetStubs
AssetRouted == {"asset_search"} \cup AssetStubs
InputRouted == InputStubs

RoutedOperations ==
    ActorRouted \cup BlueprintRouted \cup MaterialRouted \cup WidgetRouted \cup AssetRouted
    \cup InputRouted

UnroutedOperations ==
    Names(ActorUnrouted) \cup Names(BlueprintUnrouted) \cup Names(MaterialUnrouted)
    \cup Names(InputUnrouted)

\* the operations that answer NOT_IMPLEMENTED when reached
StubOperations ==
    Names(ActorStubs) \cup Names(BlueprintStubs) \cup MaterialStubs \cup WidgetStubs
    \cup AssetStubs \cup InputStubs

\* the prefixes RouteCommand tests, in its order
Prefixes == << "blueprint_", "actor_", "material_", "widget_", "asset_", "input_" >>

(***************************************************************************)
(* FGRIDBridge::RouteCommand                                               *)
(***************************************************************************)
ConnectedData ==
    MakeObject(<< BoolField("connected", TRUE),
                  StringField("engine_version", "5.5"),
                  StringField("plugin_version", "1.0.0") >>)

\* a router that has lost its system-command branch
RouteCommandNoSystem(CommandType, Params, h) ==
    IF StartsWith(CommandType, "actor_") THEN ActorHandleCommand(CommandType, Params, h)
    ELSE CreateErrorResponse("UNKNOWN_COMMAND", "Unknown command: " \o CommandType)

\* a router that looks for the group's prefix anywhere in the command
RouteCommandContains(CommandType, Params, h) ==
    LET Contains(p) ==
            \E i \in 1..(Len(CommandType) - Len(p) + 1) :
                Equals(SubSeq(CommandType, i, i + Len(p) - 1), p)
    IN
    IF Equals(CommandType, "check_connection") THEN CreateSuccessResponse(ConnectedData)
    ELSE IF Contains("blueprint_") THEN BlueprintHandleCommand(CommandType, Params, h)
    ELSE IF Contains("actor_") THEN ActorHandleCommand(CommandType, Params, h)
    ELSE IF Contains("material_") THEN MaterialHandleCommand(CommandType, Params, h)
    ELSE IF Contains("widget_") THEN WidgetHandleCommand(CommandType, Params, h)
    ELSE IF Contains("asset_") THEN AssetHandleCommand(CommandType, Params, h)
    ELSE IF Contains("input_") THEN InputHandleCommand(CommandType, Params, h)
    ELSE CreateErrorResponse("UNKNOWN_COMMAND", "Unknown command: " \o CommandType)

\* a router that hands every group an empty params object
RouteCommandNoParams(CommandType, Params, h) ==
    IF Equals(CommandType, "check_connection") THEN CreateSuccessResponse(ConnectedData)
    ELSE IF StartsWith(CommandType, "blueprint_")
         THEN BlueprintHandleCommand(CommandType, MakeObject(<<>>), h)
    ELSE IF StartsWith(CommandType, "actor_")
         THEN ActorHandleCommand(CommandType, MakeObject(<<>>), h)
    ELSE IF StartsWith(CommandType, "material_")
         THEN MaterialHandleCommand(CommandType, MakeObject(<<>>), h)
    ELSE IF StartsWith(CommandType, "widget_")
         THEN WidgetHandleCommand(CommandType, MakeObject(<<>>), h)
    ELSE IF StartsWith(CommandType, "asset_")
         THEN AssetHandleCommand(CommandType, MakeObject(<<>>), h)
    ELSE IF StartsWith(CommandType, "input_")
         THEN InputHandleCommand(CommandType, MakeObject(<<>>), h)
    ELSE CreateErrorResponse("UNKNOWN_COMMAND", "Unknown command: " \o CommandType)

RouteCommand(CommandType, Params, h) ==
    IF Equals(CommandType, "check_connection") THEN CreateSuccessResponse(ConnectedData)
    ELSE IF StartsWith(CommandType, "blueprint_") THEN BlueprintHandleCommand(CommandType, Params, h)
    ELSE IF StartsWith(CommandType, "actor_") THEN ActorHandleCommand(CommandType, Params, h)
    ELSE IF StartsWith(CommandType, "material_") THEN MaterialHandleCommand(CommandType, Params, h)
    ELSE IF StartsWith(CommandType, "widget_") THEN WidgetHandleCommand(CommandType, Params, h)
    ELSE IF StartsWith(CommandType, "asset_") THEN AssetHandleCommand(CommandType, Params, h)
    ELSE IF StartsWith(CommandType, "input_") THEN InputHandleCommand(CommandType, Params, h)
    ELSE CreateErrorResponse("UNKNOWN_COMMAND", "Unknown command: " \o CommandType)

\* the text ExecuteCommand returns when the 30 s wait expires
TimeoutText == Serialize(CreateErrorResponse("TIMEOUT", "Command execution timed out"))

(***************************************************************************)
(* FGRIDServerRunnable::ProcessRequest, up to the call of ExecuteCommand.  *)
(* A request text either parses to a JSON object or does not.              *)
(***************************************************************************)
InvalidJsonText ==
    << "{", "\"success\"", ":", "false", ",", "\"error_code\"", ":", "\"INVALID_JSON\"", ",",
       "\"error\"", ":", "\"Failed to parse request JSON\"", "}" >>
MissingCommandText ==
    << "{", "\"success\"", ":", "false", ",", "\"error_code\"", ":", "\"MISSING_COMMAND\"", ",",
       "\"error\"", ":", "\"Request missing 'command' field\"", "}" >>

\* FJsonSerializer::Deserialize of the request text: one JSON object and
\* nothing after it
Deserialize(RequestData) ==
    IF RequestData.wellFormed /\ RequestData.tail = ""
    THEN MakeObject(RequestData.fields) ELSE NullObject

\* FJsonObject::TryGetStringField
TryGetStringField(obj, k) == HasField(obj.fields, k) /\ GetField(obj.fields, k).t = "string"

\* FJsonObject::GetObjectField, then the fallback to an empty object
ParamsOf(obj) ==
    IF HasField(obj.fields, "params") /\ GetField(obj.fields, "params").t = "object"
    THEN MakeObject(GetField(obj.fields, "params").o)
    ELSE MakeObject(<<>>)

\* a ProcessRequest that dispatches an object without a command as the empty command
ProcessRequestLenient(RequestData) ==
    LET RequestJson == Deserialize(RequestData) IN
    IF ~RequestJson.valid
    THEN [dispatch |-> FALSE, text |-> InvalidJsonText, command |-> "", params |-> NullObject]
    ELSE [dispatch |-> TRUE, text |-> <<>>,
          command |-> GetStringField(RequestJson, "command"),
          params |-> ParamsOf(RequestJson)]

\* what ProcessRequest decides before dispatch: a protocol error text, or the
\* command and params it hands to Bridge->ExecuteCommand
ProcessRequest(RequestData) ==
    LET RequestJson == Deserialize(RequestData) IN
    IF ~RequestJson.valid
    THEN [dispatch |-> FALSE, text |-> InvalidJsonText, command |-> "", params |-> NullObject]
    ELSE IF ~TryGetStringField(RequestJson, "command")
    THEN [dispatch |-> FALSE, text |-> MissingCommandText, command |-> "", params |-> NullObject]
    ELSE [dispatch |-> TRUE, text |-> <<>>,
          command |-> GetField(RequestJson.fields, "command").v,
          params |-> ParamsOf(RequestJson)]

(***************************************************************************)
(* Inputs: the request texts a client may send.  A text is the JSON value  *)
(* it holds (if it is one), its length in UTF-8 bytes and in characters,   *)
(* and whatever follows the JSON value.                                    *)
(***************************************************************************)
RequestTextUtf8(wellFormed, fields, bytes, chars) ==
    [wellFormed |-> wellFormed, fields |-> fields, bytes |-> bytes, chars |-> chars,
     tail |-> ""]
\* a text of one-byte characters
RequestText(wellFormed, fields, bytes) == RequestTextUtf8(wellFormed, fields, bytes, bytes)
NoRequest == RequestText(FALSE, <<>>, 0)

\* Buffer.SetNumUninitialized(65536)
BufferSize == 65536

\* what ClientSocket->Recv(Buffer.GetData(), Buffer.Num(), BytesRead) leaves in
\* the buffer of a client that sent the text: at most Buffer.Num() bytes of it,
\* a text cut there being no JSON value any more
Recv(sent) ==
    IF sent.bytes > BufferSize THEN RequestText(FALSE, <<>>, BufferSize) ELSE sent

\* what the uninitialized buffer holds after the received bytes, up to its
\* first zero byte
Junk == {"", "x"}

\* FString(UTF8_TO_TCHAR(Buffer.GetData())): the conversion runs to the first
\* zero byte, not to BytesRead
Utf8ToTchar(buffer, junk) ==
    [buffer EXCEPT !.tail = junk, !.chars = buffer.chars + Len(junk)]

\* FString::Left(Count): the first Count characters
Left(str, Count) ==
    IF str.chars <= Count THEN str
    ELSE [str EXCEPT !.tail = SubSeq(str.tail, 1, Len(str.tail) - (str.chars - Count)),
                     !.chars = Count]

Requests ==
    { RequestText(FALSE, <<>>, 7),
      RequestText(TRUE, << ObjectField("params", <<>>) >>, 13),
      RequestText(TRUE, << StringField("command", "check_connection") >>, 30),
      RequestText(TRUE, << StringField("command", "check_connection"),
                           ObjectField("params", << BoolField("verbose", TRUE) >>) >>, 58),
      RequestText(TRUE, << StringField("command", "actor_delete"),
                           ObjectField("params", << StringField("name", "Cube") >>) >>, 51),
      RequestText(TRUE, << StringField("command", "teleport") >>, 22),
      \* the last letter of the name is an e with an acute accent: two bytes
      RequestTextUtf8(TRUE, << StringField("command", "actor_delete"),
                               ObjectField("params", << StringField("name", "Cafe") >>) >>,
                      52, 51),
      \* more than the buffer takes
      RequestText(TRUE, << StringField("command", "asset_search") >>, 70000) }

(***************************************************************************)
(* State.                                                                  *)
(***************************************************************************)
VARIABLES
    \* FGRIDBridge
    bIsRunning, Port, ListenerSocket, ServerThread, ServerRunnable, PortFilePath,
    \* operating system: listener sockets by id, the discovery file
    sockets, nSockets, portFile,
    \* FGRIDServerRunnable and its thread
    spc, StopTaskCounter, rSocket, conn,
    \* clients: connections pending on the listener, accepted so far, open
    backlog, nConns, openClients,
    \* game thread: position, AsyncTask queue, tasks being run
    gpc, queue, running,
    \* history: the last API call and the path it took; the queued or running
    \* tasks whose waiter has timed out; the connections the current runnable
    \* accepted after its Stop() was called
    api, abandoned, acceptedAfterStop,
    \* FServiceContext: the critical section, the configuration map, the call
    \* each thread is in, and for each key the value of the last SetConfigValue
    \* that has returned
    Lock, ConfigValues, call, committed,
    \* FGRIDEditorModule: the call it is in, and its own bIsRunning
    mpc, ModuleIsRunning,
    \* FGRIDToolRegistry (the singleton): its members
    Tools, ToolNameToIndex, ToolExecuteFuncs, DisabledTools, bInitialized,
    \* the last call made on the registry, and whether SetToolEnabled has been
    \* called since the last Shutdown()
    rcall, sinceShutdown

bridgeVars == <<bIsRunning, Port, ListenerSocket, ServerThread, ServerRunnable, PortFilePath>>
osVars == <<sockets, nSockets, portFile>>
serverVars == <<spc, StopTaskCounter, rSocket, conn>>
clientVars == <<backlog, nConns, openClients>>
gameVars == <<gpc, queue, running>>
histVars == <<abandoned, acceptedAfterStop>>
ctxVars == <<Lock, ConfigValues, call, committed>>
moduleVars == <<mpc, ModuleIsRunning>>
registryVars == <<Tools, ToolNameToIndex, ToolExecuteFuncs, DisabledTools, bInitialized,
                  rcall, sinceShutdown>>
vars == <<bridgeVars, osVars, serverVars, clientVars, gameVars, api, histVars, ctxVars,
          moduleVars, registryVars>>

PortFileName == "Saved/Config/GRID/Port.txt"
NoFile == [exists |-> FALSE, content |-> ""]
NoSocket == [st |-> "unused", port |-> 0, held |-> FALSE]

\* the connection the server thread is handling
NoConn ==
    [id |-> 0, waited |-> "none", recv |-> "none", BytesRead |-> 0, request |-> NoRequest,
     RequestData |-> NoRequest,
     enqueued |-> FALSE, future |-> <<>>, src |-> 0, resp |-> <<>>, writes |-> 0]

Called(op, path) == [op |-> op, path |-> path]

(***************************************************************************)
(* FServiceContext as constructed: an empty TMap, a free critical section, *)
(* no call in progress.                                                    *)
(***************************************************************************)
Threads == 1..MaxThreads
Keys == {"Host", "Mode"}
Values == {"", "a"}
DefaultValues == {"", "d"}
\* TMap::Find returning nullptr
NoValue == "<null>"
\* the content of an entry that TMap::Add is in the middle of writing
Torn == "?"
NoCall == [op |-> "none", at |-> "idle", Key |-> "", Value |-> "", ret |-> ""]

\* FGRIDToolRegistry::Get(): the function-local static, default-constructed
FGRIDToolRegistry ==
    /\ Tools = <<>> /\ ToolNameToIndex = {} /\ ToolExecuteFuncs = {}
    /\ DisabledTools = {} /\ bInitialized = FALSE
    /\ rcall = "none" /\ sinceShutdown = "never"

\* FGRIDEditorModule::StartupModule before its StartServer(): the bridge is
\* constructed and the module's flag is false
FGRIDEditorModule == mpc = "idle" /\ ModuleIsRunning = FALSE

FServiceContext ==
    /\ Lock = 0
    /\ ConfigValues = [k \in Keys |-> NoValue]
    /\ call = [t \in Threads |-> NoCall]
    /\ committed = [k \in Keys |-> NoValue]

Init ==
    /\ bIsRunning = FALSE /\ Port = 0 /\ ListenerSocket = 0
    /\ ServerThread = FALSE /\ ServerRunnable = FALSE /\ PortFilePath = ""
    /\ sockets = [i \in 1..MaxSockets |-> NoSocket] /\ nSockets = 0 /\ portFile = NoFile
    /\ spc = "none" /\ StopTaskCounter = 0 /\ rSocket = 0 /\ conn = NoConn
    /\ backlog = 0 /\ nConns = 0 /\ openClients = {}
    /\ gpc = "idle" /\ queue = <<>> /\ running = {}
    /\ api = [op |-> "none", path |-> "none"]
    /\ abandoned = {} /\ acceptedAfterStop = 0
    /\ FServiceContext
    /\ FGRIDEditorModule
    /\ FGRIDToolRegistry

(***************************************************************************)
(* FGRIDBridge::Initialize, on the game thread.  The outcome says how far  *)
(* the operating system lets it get.                                       *)
(***************************************************************************)
InitOutcomes == {"no_subsystem", "create_fail", "bind_fail", "listen_fail", "thread_fail", "ok"}

\* a TSharedPtr<FSocket> reference is dropped: the last one deletes (closes) the socket
Release(socks, s) ==
    IF s # 0 /\ ~socks[s].held /\ socks[s].st # "closed"
    THEN [socks EXCEPT ![s].st = "closed", ![s].port = 0] ELSE socks

PortsInUse == {sockets[i].port : i \in {j \in 1..MaxSockets : sockets[j].st \in {"bound", "listening"}}}

\* the port the bind is given: none (0) when Initialize() does not get that far
AssignablePorts(outcome) ==
    IF outcome \in {"listen_fail", "thread_fail", "ok"} THEN Ports \ PortsInUse ELSE {0}

\* a WritePortFile() that runs before Port is assigned from the bound address
WritePortFileStale(port) == [exists |-> TRUE, content |-> FromInt(Port)]

\* FGRIDBridge::WritePortFile
WritePortFile(port) == [exists |-> TRUE, content |-> FromInt(port)]

\* FGRIDBridge::DeletePortFile
DeletePortFile(path, file) == IF path # "" THEN NoFile ELSE file

\* an Initialize() that goes on to publish after a failed Listen
PastBind(outcome) == outcome \in {"listen_fail", "thread_fail", "ok"}

\* the outcomes in which Initialize() gets past Listen(5), to WritePortFile()
\* and the creation of the runnable and its thread
PastListen(outcome) == outcome \in {"thread_fail", "ok"}

\* Initialize() with the running guard removed
InitializeGuardUnguarded == FALSE

InitializeGuard == bIsRunning

Initialize(outcome, p) ==
    /\ gpc = "idle"
    /\ UNCHANGED <<nConns, openClients, gameVars, histVars>>
    /\ IF InitializeGuard
       THEN /\ api' = Called("Initialize", "already_running")
            /\ UNCHANGED <<bridgeVars, osVars, serverVars, backlog>>
       ELSE
       /\ api' = Called("Initialize", outcome)
       /\ outcome \notin {"no_subsystem", "create_fail"} => nSockets < MaxSockets
       /\ LET id == nSockets + 1
              bound == outcome \in {"listen_fail", "thread_fail", "ok"}
              listening == PastListen(outcome)
              released == Release(sockets, ListenerSocket)
          IN
          CASE outcome = "no_subsystem" ->
                 UNCHANGED <<bridgeVars, osVars, serverVars, backlog>>
            [] outcome = "create_fail" ->
                 /\ ListenerSocket' = 0
                 /\ sockets' = released
                 /\ UNCHANGED <<bIsRunning, Port, ServerThread, ServerRunnable, PortFilePath,
                                nSockets, portFile, serverVars, backlog>>
            [] OTHER ->
                 /\ ListenerSocket' = id
                 /\ nSockets' = id
                 /\ sockets' = [released EXCEPT ![id] =
                        [st |-> IF listening THEN "listening"
                                ELSE IF bound THEN "bound" ELSE "created",
                         port |-> IF bound THEN p ELSE 0,
                         held |-> listening]]
                 /\ Port' = IF bound THEN p ELSE Port
                 /\ PortFilePath' = IF listening THEN PortFileName ELSE PortFilePath
                 /\ portFile' = IF listening THEN WritePortFile(p) ELSE portFile
                 /\ ServerRunnable' = IF listening THEN TRUE ELSE ServerRunnable
                 /\ ServerThread' = IF listening THEN outcome = "ok" ELSE ServerThread
                 \* a failed thread creation calls Shutdown(), which returns at
                 \* its guard because bIsRunning is still false
                 /\ bIsRunning' = (outcome = "ok")
                 /\ rSocket' = IF listening THEN id ELSE rSocket
                 /\ backlog' = IF listening THEN 0 ELSE backlog
                 /\ IF outcome = "ok"
                    THEN spc' = "loop" /\ StopTaskCounter' = 0 /\ conn' = NoConn
                    ELSE UNCHANGED <<spc, StopTaskCounter, conn>>
    /\ UNCHANGED <<ctxVars, moduleVars, registryVars>>

(***************************************************************************)
(* FGRIDBridge::Shutdown, on the game thread, in three steps: the guard    *)
(* and Stop(); closing the listener; joining the thread and deleting the   *)
(* discovery file.                                                         *)
(***************************************************************************)
ShutdownBegin ==
    /\ gpc = "idle"
    /\ IF ~bIsRunning
       THEN /\ api' = Called("Shutdown", "not_running")
            /\ UNCHANGED <<bIsRunning, StopTaskCounter, gpc>>
       ELSE /\ api' = Called("Shutdown", "ran")
            /\ bIsRunning' = FALSE
            /\ StopTaskCounter' = IF ServerRunnable THEN StopTaskCounter + 1 ELSE StopTaskCounter
            /\ gpc' = "sd_close"
    /\ UNCHANGED <<Port, ListenerSocket, ServerThread, ServerRunnable, PortFilePath, osVars,
                   spc, rSocket, conn, clientVars, queue, running, histVars>>
    /\ UNCHANGED <<ctxVars, moduleVars, registryVars>>

\* a Shutdown() that closes the accepted client sockets along with the listener
ShutdownCloseClients ==
    /\ gpc = "sd_close"
    /\ IF ListenerSocket # 0
       THEN /\ sockets' = [sockets EXCEPT ![ListenerSocket].st = "closed", ![ListenerSocket].port = 0]
            /\ ListenerSocket' = 0
            /\ backlog' = IF rSocket = ListenerSocket THEN 0 ELSE backlog
       ELSE UNCHANGED <<sockets, ListenerSocket, backlog>>
    /\ openClients' = {}
    /\ gpc' = "sd_join"
    /\ UNCHANGED <<bIsRunning, Port, ServerThread, ServerRunnable, PortFilePath, nSockets,
                   portFile, serverVars, nConns, queue, running, api, histVars, ctxVars, moduleVars, registryVars>>

ShutdownClose ==
    /\ gpc = "sd_close"
    /\ IF ListenerSocket # 0
       THEN /\ sockets' = [sockets EXCEPT ![ListenerSocket].st = "closed", ![ListenerSocket].port = 0]
            /\ ListenerSocket' = 0
            /\ backlog' = IF rSocket = ListenerSocket THEN 0 ELSE backlog
       ELSE UNCHANGED <<sockets, ListenerSocket, backlog>>
    /\ gpc' = "sd_join"
    /\ UNCHANGED <<bIsRunning, Port, ServerThread, ServerRunnable, PortFilePath, nSockets,
                   portFile, serverVars, nConns, openClients, queue, running, api, histVars>>
    /\ UNCHANGED <<ctxVars, moduleVars, registryVars>>

\* a Shutdown() that does not wait for Run() to return
ShutdownJoinNoWait ==
    /\ gpc = "sd_join"
    /\ ServerThread' = FALSE
    /\ ServerRunnable' = IF ServerThread THEN FALSE ELSE ServerRunnable
    /\ portFile' = DeletePortFile(PortFilePath, portFile)
    /\ gpc' = "idle"
    /\ acceptedAfterStop' = 0
    /\ UNCHANGED <<bIsRunning, Port, ListenerSocket, PortFilePath, sockets, nSockets,
                   serverVars, clientVars, queue, running, api, abandoned, ctxVars, moduleVars, registryVars>>

ShutdownJoin ==
    /\ gpc = "sd_join"
    \* FRunnableThread::WaitForCompletion returns once Run() has returned
    /\ ServerThread => spc = "exited"
    /\ ServerThread' = FALSE
    /\ ServerRunnable' = IF ServerThread THEN FALSE ELSE ServerRunnable
    /\ portFile' = DeletePortFile(PortFilePath, portFile)
    /\ gpc' = "idle"
    \* the runnable is gone, and its history with it
    /\ acceptedAfterStop' = 0
    /\ UNCHANGED <<bIsRunning, Port, ListenerSocket, PortFilePath, sockets, nSockets,
                   serverVars, clientVars, queue, running, api, abandoned>>
    /\ UNCHANGED <<ctxVars, moduleVars, registryVars>>

(***************************************************************************)
(* Clients.                                                                *)
(***************************************************************************)
ClientConnect ==
    /\ rSocket # 0 /\ sockets[rSocket].st = "listening"
    /\ backlog = 0
    /\ nConns + backlog < MaxConns
    /\ backlog' = 1
    /\ UNCHANGED <<bridgeVars, osVars, serverVars, nConns, openClients, gameVars, api, histVars>>
    /\ UNCHANGED <<ctxVars, moduleVars, registryVars>>

(***************************************************************************)
(* FGRIDServerRunnable::Run, one step per blocking call.                   *)
(***************************************************************************)
\* a loop that looks at the listener only, not at the stop flag
RunLoopIgnoresStop ==
    /\ spc = "loop"
    /\ spc' = IF rSocket = 0 \/ sockets[rSocket].st = "closed" THEN "exited" ELSE "poll"
    /\ UNCHANGED <<bridgeVars, osVars, StopTaskCounter, rSocket, conn, clientVars, gameVars,
                   api, histVars, ctxVars, moduleVars, registryVars>>

\* the loop condition: StopTaskCounter, then ListenerSocket.IsValid()
RunLoop ==
    /\ spc = "loop"
    /\ spc' = IF StopTaskCounter # 0 \/ rSocket = 0 THEN "exited" ELSE "poll"
    /\ UNCHANGED <<bridgeVars, osVars, StopTaskCounter, rSocket, conn, clientVars, gameVars,
                   api, histVars>>
    /\ UNCHANGED <<ctxVars, moduleVars, registryVars>>

\* a loop that a failed poll ends
RunPollFailEnds(r) ==
    /\ spc = "poll"
    /\ r \in {"fail", "idle", "pending"}
    /\ sockets[rSocket].st # "closed" =>
          /\ r = "pending" => backlog > 0
          /\ r = "idle" => backlog = 0
    /\ spc' = IF r = "pending" THEN "accept" ELSE IF r = "fail" THEN "exited" ELSE "loop"
    /\ UNCHANGED <<bridgeVars, osVars, StopTaskCounter, rSocket, conn, clientVars, gameVars,
                   api, histVars, ctxVars, moduleVars, registryVars>>

\* WaitForPendingConnection(bHasPendingConnection, 100 ms).  On a listener that
\* Shutdown() has already destroyed the call is on a dangling pointer: it may
\* fail, or report either answer.
RunPoll(r) ==
    /\ spc = "poll"
    /\ r \in {"fail", "idle", "pending"}
    /\ sockets[rSocket].st # "closed" =>
          /\ r = "pending" => backlog > 0
          /\ r = "idle" => backlog = 0
    /\ spc' = IF r = "pending" THEN "accept" ELSE "loop"
    /\ UNCHANGED <<bridgeVars, osVars, StopTaskCounter, rSocket, conn, clientVars, gameVars,
                   api, histVars>>
    /\ UNCHANGED <<ctxVars, moduleVars, registryVars>>

\* ListenerSocket->Accept; a null client socket goes back to the loop
RunAccept(ok) ==
    /\ spc = "accept"
    /\ IF sockets[rSocket].st = "closed" \/ backlog = 0
       THEN /\ spc' = "loop"
            /\ UNCHANGED <<conn, clientVars>>
       ELSE /\ backlog' = backlog - 1
            /\ IF ok
               THEN /\ nConns' = nConns + 1
                    /\ openClients' = openClients \cup {nConns + 1}
                    /\ conn' = [NoConn EXCEPT !.id = nConns + 1]
                    /\ spc' = "wait"
               ELSE /\ spc' = "loop"
                    /\ UNCHANGED <<nConns, openClients, conn>>
    /\ acceptedAfterStop' = IF nConns' # nConns /\ StopTaskCounter # 0
                            THEN acceptedAfterStop + 1 ELSE acceptedAfterStop
    /\ UNCHANGED <<bridgeVars, osVars, StopTaskCounter, rSocket, gameVars, api, abandoned>>
    /\ UNCHANGED <<ctxVars, moduleVars, registryVars>>

(***************************************************************************)
(* FGRIDServerRunnable::HandleClientConnection                             *)
(***************************************************************************)
\* SetNonBlocking(false); Wait(WaitForRead, 5 s): the result is not looked at
HandleWait(ready) ==
    /\ spc = "wait"
    /\ conn' = [conn EXCEPT !.waited = IF ready THEN "ready" ELSE "timeout"]
    /\ spc' = "recv"
    /\ UNCHANGED <<bridgeVars, osVars, StopTaskCounter, rSocket, clientVars, gameVars, api, histVars>>
    /\ UNCHANGED <<ctxVars, moduleVars, registryVars>>

\* what a Recv with the given outcome leaves in the buffer
Readable(outcome) == IF outcome = "data" THEN {Recv(sent) : sent \in Requests} ELSE {NoRequest}

\* a failed or empty read that goes back to the loop without closing the client
HandleRecvSkipsClose(outcome, r, junk) ==
    /\ spc = "recv"
    /\ outcome \in {"fail", "zero", "data"}
    /\ conn' = IF outcome = "data"
               THEN [conn EXCEPT !.recv = outcome,
                                 !.BytesRead = r.bytes,
                                 !.request = r,
                                 !.RequestData = Left(Utf8ToTchar(r, junk), r.bytes)]
               ELSE NoConn
    /\ spc' = IF outcome = "data" THEN "process" ELSE "loop"
    /\ UNCHANGED <<bridgeVars, osVars, StopTaskCounter, rSocket, clientVars, gameVars, api,
                   histVars, ctxVars, moduleVars, registryVars>>

\* Recv into the 64 KiB buffer: it fails, returns no byte, or returns a request;
\* then RequestData = FString(UTF8_TO_TCHAR(Buffer)).Left(BytesRead)
HandleRecv(outcome, r, junk) ==
    /\ spc = "recv"
    /\ outcome \in {"fail", "zero", "data"}
    /\ conn' = [conn EXCEPT !.recv = outcome,
                            !.BytesRead = r.bytes,
                            !.request = r,
                            !.RequestData = IF outcome = "data"
                                            THEN Left(Utf8ToTchar(r, junk), r.bytes)
                                            ELSE NoRequest]
    /\ spc' = IF outcome = "data" THEN "process" ELSE "close"
    /\ UNCHANGED <<bridgeVars, osVars, StopTaskCounter, rSocket, clientVars, gameVars, api, histVars>>
    /\ UNCHANGED <<ctxVars, moduleVars, registryVars>>

\* a server thread that routes the command itself instead of posting it
HandleProcessInline ==
    /\ spc = "process"
    /\ LET pr == ProcessRequest(conn.RequestData) IN
       IF ~pr.dispatch
       THEN /\ conn' = [conn EXCEPT !.resp = pr.text]
            /\ spc' = "send"
       ELSE /\ \E h \in HostOutcomes :
                  conn' = [conn EXCEPT !.future = Serialize(RouteCommand(pr.command, pr.params, h)),
                                       !.src = conn.id]
            /\ spc' = "future"
    /\ UNCHANGED <<bridgeVars, osVars, StopTaskCounter, rSocket, clientVars, gameVars, api,
                   histVars, ctxVars, moduleVars, registryVars>>

\* ProcessRequest: a protocol error text, or ExecuteCommand's AsyncTask onto the
\* game thread
HandleProcess ==
    /\ spc = "process"
    /\ LET pr == ProcessRequest(conn.RequestData) IN
       IF ~pr.dispatch
       THEN /\ conn' = [conn EXCEPT !.resp = pr.text]
            /\ spc' = "send"
            /\ UNCHANGED queue
       ELSE /\ queue' = Append(queue, [id |-> conn.id, command |-> pr.command, params |-> pr.params])
            /\ conn' = [conn EXCEPT !.enqueued = TRUE]
            /\ spc' = "future"
    /\ UNCHANGED <<bridgeVars, osVars, StopTaskCounter, rSocket, clientVars, gpc, running, api,
                   histVars>>
    /\ UNCHANGED <<ctxVars, moduleVars, registryVars>>

\* Future.WaitFor returned true: ExecuteCommand returns Future.Get()
ExecuteCommandReady ==
    /\ spc = "future"
    /\ conn.future # <<>>
    /\ conn' = [conn EXCEPT !.resp = conn.future]
    /\ spc' = "send"
    /\ UNCHANGED <<bridgeVars, osVars, StopTaskCounter, rSocket, clientVars, gameVars, api, histVars>>
    /\ UNCHANGED <<ctxVars, moduleVars, registryVars>>

RemoveTask(q, id) == SelectSeq(q, LAMBDA t : t.id # id)

\* the wait expiring although the result is there
ExecuteCommandTimeoutEager ==
    /\ spc = "future"
    /\ conn' = [conn EXCEPT !.resp = TimeoutText]
    /\ abandoned' = abandoned \cup {conn.id}
    /\ UNCHANGED acceptedAfterStop
    /\ spc' = "send"
    /\ UNCHANGED <<bridgeVars, osVars, StopTaskCounter, rSocket, clientVars, gameVars, api>>
    /\ UNCHANGED <<ctxVars, moduleVars, registryVars>>

\* a timeout that withdraws the task it gave up on
ExecuteCommandTimeoutCancel ==
    /\ spc = "future"
    /\ conn.future = <<>>
    /\ conn' = [conn EXCEPT !.resp = TimeoutText]
    /\ abandoned' = abandoned \cup {conn.id}
    /\ UNCHANGED acceptedAfterStop
    /\ queue' = RemoveTask(queue, conn.id)
    /\ spc' = "send"
    /\ UNCHANGED <<bridgeVars, osVars, StopTaskCounter, rSocket, clientVars, gpc, running, api>>
    /\ UNCHANGED <<ctxVars, moduleVars, registryVars>>

\* a wait for the future that has no timeout
ExecuteCommandWaitsForever == FALSE /\ UNCHANGED vars

\* Future.WaitFor(30 s) returned false: ExecuteCommand returns the TIMEOUT error
ExecuteCommandTimeout ==
    /\ spc = "future"
    /\ conn.future = <<>>
    /\ conn' = [conn EXCEPT !.resp = TimeoutText]
    /\ abandoned' = abandoned \cup {conn.id}
    /\ UNCHANGED acceptedAfterStop
    /\ spc' = "send"
    /\ UNCHANGED <<bridgeVars, osVars, StopTaskCounter, rSocket, clientVars, gameVars, api>>
    /\ UNCHANGED <<ctxVars, moduleVars, registryVars>>

\* ClientSocket->Send, once, whatever it returns
HandleSend ==
    /\ spc = "send"
    /\ conn' = [conn EXCEPT !.writes = conn.writes + 1]
    /\ spc' = "close"
    /\ UNCHANGED <<bridgeVars, osVars, StopTaskCounter, rSocket, clientVars, gameVars, api, histVars>>
    /\ UNCHANGED <<ctxVars, moduleVars, registryVars>>

\* a loop that goes back to polling with the client socket still open
RunCloseLeak ==
    /\ spc = "close"
    /\ conn' = NoConn
    /\ spc' = "loop"
    /\ UNCHANGED <<bridgeVars, osVars, StopTaskCounter, rSocket, clientVars, gameVars, api, histVars>>
    /\ UNCHANGED <<ctxVars, moduleVars, registryVars>>

\* back in Run: ClientSocket->Close(); DestroySocket(ClientSocket)
RunClose ==
    /\ spc = "close"
    /\ openClients' = openClients \ {conn.id}
    /\ conn' = NoConn
    /\ spc' = "loop"
    /\ UNCHANGED <<bridgeVars, osVars, StopTaskCounter, rSocket, backlog, nConns, gameVars, api,
                   histVars>>
    /\ UNCHANGED <<ctxVars, moduleVars, registryVars>>

(***************************************************************************)
(* The game thread drains the AsyncTask queue: a task is the lambda of     *)
(* ExecuteCommand (RouteCommand, Serialize, Promise.SetValue).             *)
(***************************************************************************)
\* a queue that hands out the newest task first
TaskBeginNewest ==
    /\ gpc = "idle"
    /\ queue # <<>>
    /\ running' = running \cup {queue[Len(queue)]}
    /\ queue' = SubSeq(queue, 1, Len(queue) - 1)
    /\ gpc' = "task"
    /\ UNCHANGED <<bridgeVars, osVars, serverVars, clientVars, api, histVars>>
    /\ UNCHANGED <<ctxVars, moduleVars, registryVars>>

TaskBegin ==
    /\ gpc = "idle"
    /\ queue # <<>>
    /\ running' = running \cup {Head(queue)}
    /\ queue' = Tail(queue)
    /\ gpc' = "task"
    /\ UNCHANGED <<bridgeVars, osVars, serverVars, clientVars, api, histVars>>
    /\ UNCHANGED <<ctxVars, moduleVars, registryVars>>

TaskEnd(h) ==
    /\ running # {}
    /\ \E t \in running :
         LET ResultString == Serialize(RouteCommand(t.command, t.params, h)) IN
         /\ running' = running \ {t}
         /\ abandoned' = abandoned \ {t.id}
         /\ UNCHANGED acceptedAfterStop
         \* Promise.SetValue reaches the future only while ExecuteCommand still holds it
         /\ conn' = IF spc = "future" /\ conn.id = t.id
                    THEN [conn EXCEPT !.future = ResultString, !.src = t.id]
                    ELSE conn
    /\ gpc' = IF gpc = "task" THEN "idle" ELSE gpc
    /\ UNCHANGED <<bridgeVars, osVars, spc, StopTaskCounter, rSocket, clientVars, queue, api>>
    /\ UNCHANGED <<ctxVars, moduleVars, registryVars>>

Next ==
    \/ \E outcome \in InitOutcomes : \E p \in AssignablePorts(outcome) : Initialize(outcome, p)
    \/ ShutdownBegin
    \/ ShutdownClose
    \/ ShutdownJoin
    \/ ClientConnect
    \/ RunLoop
    \/ \E r \in {"fail", "idle", "pending"} : RunPoll(r)
    \/ \E ok \in BOOLEAN : RunAccept(ok)
    \/ \E ready \in BOOLEAN : HandleWait(ready)
    \/ \E outcome \in {"fail", "zero", "data"} : \E r \in Readable(outcome) : \E junk \in Junk :
           HandleRecv(outcome, r, junk)
    \/ HandleProcess
    \/ ExecuteCommandReady
    \/ ExecuteCommandTimeout
    \/ HandleSend
    \/ RunClose
    \/ TaskBegin
    \/ \E h \in HostOutcomes : TaskEnd(h)

Spec == Init /\ [][Next]_vars

(***************************************************************************)
(* Scheduling.  Both threads keep running, and every bounded wait ends:    *)
(* the 100 ms poll, the 5 s Wait, the 30 s Future.WaitFor.  The blocking   *)
(* Recv is the exception: it returns when the peer sends or closes, which  *)
(* no scheduler promises.                                                  *)
(***************************************************************************)
ServerProgress ==
    \/ RunLoop
    \/ \E r \in {"fail", "idle", "pending"} : RunPoll(r)
    \/ \E ok \in BOOLEAN : RunAccept(ok)
    \/ \E ready \in BOOLEAN : HandleWait(ready)
    \/ HandleProcess
    \/ ExecuteCommandReady
    \/ ExecuteCommandTimeout
    \/ HandleSend
    \/ RunClose

ShutdownProgress == ShutdownClose \/ ShutdownJoin

LiveSpec == Spec /\ WF_vars(ServerProgress) /\ WF_vars(ShutdownProgress)

\* the bridge when every Initialize() gets its socket and its thread
RestartNext ==
    \/ \E p \in AssignablePorts("ok") : Initialize("ok", p)
    \/ ShutdownBegin
    \/ ShutdownClose
    \/ ShutdownJoin
    \/ ClientConnect
    \/ RunLoop
    \/ \E r \in {"fail", "idle", "pending"} : RunPoll(r)
    \/ \E ok \in BOOLEAN : RunAccept(ok)
    \/ \E ready \in BOOLEAN : HandleWait(ready)
    \/ \E outcome \in {"fail", "zero", "data"} : \E r \in Readable(outcome) : \E junk \in Junk :
           HandleRecv(outcome, r, junk)
    \/ HandleProcess
    \/ ExecuteCommandReady
    \/ ExecuteCommandTimeout
    \/ HandleSend
    \/ RunClose
    \/ TaskBegin
    \/ \E h \in HostOutcomes : TaskEnd(h)

RestartLiveSpec ==
    Init /\ [][RestartNext]_vars /\ WF_vars(ServerProgress) /\ WF_vars(ShutdownProgress)

(***************************************************************************)
(* FGRIDEditorModule::StartServer and StopServer, on the game thread: the  *)
(* guard, the call into the bridge, and the assignment of the module's own *)
(* flag after the bridge call has returned.                                *)
(***************************************************************************)
bridgeAndThreads == <<bridgeVars, osVars, serverVars, clientVars, gameVars, histVars, ctxVars,
                      registryVars>>

\* if (bIsRunning || !Bridge) return;
StartServerEnter ==
    /\ mpc = "idle" /\ gpc = "idle"
    /\ IF ModuleIsRunning
       THEN api' = Called("StartServer", "already_running") /\ mpc' = "idle"
       ELSE api' = Called("StartServer", "call") /\ mpc' = "starting"
    /\ UNCHANGED <<ModuleIsRunning, bridgeAndThreads>>

\* Bridge->Initialize()
StartServerInitialize(outcome, p) ==
    /\ mpc = "starting" /\ api.op = "StartServer"
    /\ Initialize(outcome, p)

\* bIsRunning = true, whatever Initialize() did
StartServerReturn ==
    /\ mpc = "starting" /\ api.op = "Initialize"
    /\ ModuleIsRunning' = TRUE
    /\ mpc' = "idle"
    /\ UNCHANGED <<api, bridgeAndThreads>>

\* if (!bIsRunning || !Bridge) return;
StopServerEnter ==
    /\ mpc = "idle" /\ gpc = "idle"
    /\ IF ~ModuleIsRunning
       THEN api' = Called("StopServer", "not_running") /\ mpc' = "idle"
       ELSE api' = Called("StopServer", "call") /\ mpc' = "stopping"
    /\ UNCHANGED <<ModuleIsRunning, bridgeAndThreads>>

\* Bridge->Shutdown()
StopServerShutdown ==
    /\ mpc = "stopping" /\ api.op = "StopServer"
    /\ ShutdownBegin

\* bIsRunning = false
StopServerReturn ==
    /\ mpc = "stopping" /\ api.op = "Shutdown" /\ gpc = "idle"
    /\ ModuleIsRunning' = FALSE
    /\ mpc' = "idle"
    /\ UNCHANGED <<api, bridgeAndThreads>>

ModuleNext ==
    \/ StartServerEnter
    \/ \E outcome \in InitOutcomes : \E p \in AssignablePorts(outcome) :
           StartServerInitialize(outcome, p)
    \/ StartServerReturn
    \/ StopServerEnter
    \/ StopServerShutdown
    \/ ShutdownClose
    \/ ShutdownJoin
    \/ StopServerReturn
    \/ ClientConnect
    \/ RunLoop
    \/ \E r \in {"fail", "idle", "pending"} : RunPoll(r)
    \/ \E ok \in BOOLEAN : RunAccept(ok)
    \/ \E ready \in BOOLEAN : HandleWait(ready)
    \/ \E outcome \in {"fail", "zero", "data"} : \E r \in Readable(outcome) : \E junk \in Junk :
           HandleRecv(outcome, r, junk)
    \/ HandleProcess
    \/ ExecuteCommandReady
    \/ ExecuteCommandTimeout
    \/ HandleSend
    \/ RunClose
    \/ (mpc = "idle" /\ TaskBegin)
    \/ \E h \in HostOutcomes : TaskEnd(h)

ModuleSpec == Init /\ [][ModuleNext]_vars

(***************************************************************************)
(* FGRIDToolRegistry.  A TMap<FString, V> is a set of <<key, value>> pairs *)
(* and a TSet<FString> a set of keys; both compare keys as FString does,   *)
(* ignoring case, and Add replaces the element whose key matches.  Indices *)
(* count from 0 as in TArray.                                              *)
(***************************************************************************)
ToolNames == {"spawn", "Spawn", "list"}

\* two registrations of one name differ in their description and function
Versions == {"v1", "v2"}

\* FGRIDToolRegistration
Registrations ==
    {[Name |-> n, Description |-> v, ExecuteFunc |-> v] : n \in ToolNames, v \in Versions}

NoTool == [Name |-> "", Description |-> "<null>"]

MapFind(map, key) == {e \in map : Equals(e[1], key)}

MapAdd(map, key, value) == (map \ MapFind(map, key)) \cup {<<key, value>>}

SetContains(set, key) == \E e \in set : Equals(e, key)

SetAdd(set, key) == {e \in set : ~Equals(e, key)} \cup {key}

SetRemove(set, key) == {e \in set : ~Equals(e, key)}

\* const TArray<FGRIDToolMetadata>& GetAllTools() const
GetAllTools == Tools

\* FGRIDToolRegistry::FindTool: the metadata found, NoTool for nullptr
FindTool(ToolName) ==
    LET Index == MapFind(ToolNameToIndex, ToolName)
    IN  IF Index # {} /\ (CHOOSE e \in Index : TRUE)[2] \in 0..(Len(Tools) - 1)
        THEN Tools[(CHOOSE e \in Index : TRUE)[2] + 1]
        ELSE NoTool

\* FGRIDToolRegistry::IsToolEnabled
IsToolEnabled(ToolName) == ~SetContains(DisabledTools, ToolName)

UnknownTool == "{success:false,error_code:UNKNOWN_TOOL,error:Tool not found}"

ToolDisabled == "{success:false,error_code:TOOL_DISABLED,error:Tool is disabled}"

\* what the registered function of version f returns
Ran(f) == "ran:" \o f

\* FGRIDToolRegistry::ExecuteTool
ExecuteTool(ToolName) ==
    LET Func == MapFind(ToolExecuteFuncs, ToolName)
    IN  IF Func = {} THEN UnknownTool
        ELSE IF SetContains(DisabledTools, ToolName) THEN ToolDisabled
        ELSE Ran((CHOOSE e \in Func : TRUE)[2])

\* FGRIDToolRegistry::Initialize
RegistryInitialize ==
    /\ bInitialized' = TRUE
    /\ rcall' = "Initialize"
    /\ UNCHANGED <<Tools, ToolNameToIndex, ToolExecuteFuncs, DisabledTools, sinceShutdown>>
    /\ UNCHANGED <<bridgeVars, osVars, serverVars, clientVars, gameVars, api, histVars, ctxVars,
                   moduleVars>>

\* FGRIDToolRegistry::Shutdown
RegistryShutdown ==
    /\ Tools' = <<>>
    /\ ToolNameToIndex' = {}
    /\ ToolExecuteFuncs' = {}
    /\ bInitialized' = FALSE
    /\ rcall' = "Shutdown"
    /\ sinceShutdown' = "clean"
    /\ UNCHANGED DisabledTools
    /\ UNCHANGED <<bridgeVars, osVars, serverVars, clientVars, gameVars, api, histVars, ctxVars,
                   moduleVars>>

\* FGRIDToolRegistry::RegisterTool
RegisterTool(Registration) ==
    /\ Len(Tools) < MaxTools
    /\ LET Index == Len(Tools)
       IN  /\ Tools' = Append(Tools, [Name |-> Registration.Name,
                                      Description |-> Registration.Description])
           /\ ToolNameToIndex' = MapAdd(ToolNameToIndex, Registration.Name, Index)
           /\ ToolExecuteFuncs' = MapAdd(ToolExecuteFuncs, Registration.Name,
                                         Registration.ExecuteFunc)
    /\ rcall' = "RegisterTool"
    /\ UNCHANGED <<DisabledTools, bInitialized, sinceShutdown>>
    /\ UNCHANGED <<bridgeVars, osVars, serverVars, clientVars, gameVars, api, histVars, ctxVars,
                   moduleVars>>

\* FGRIDToolRegistry::SetToolEnabled
SetToolEnabled(ToolName, bEnabled) ==
    /\ DisabledTools' = IF bEnabled THEN SetRemove(DisabledTools, ToolName)
                        ELSE SetAdd(DisabledTools, ToolName)
    /\ rcall' = "SetToolEnabled"
    /\ sinceShutdown' = IF sinceShutdown = "clean" THEN "touched" ELSE sinceShutdown
    /\ UNCHANGED <<Tools, ToolNameToIndex, ToolExecuteFuncs, bInitialized>>
    /\ UNCHANGED <<bridgeVars, osVars, serverVars, clientVars, gameVars, api, histVars, ctxVars,
                   moduleVars>>

RegistryNext ==
    \/ RegistryInitialize
    \/ RegistryShutdown
    \/ \E Registration \in Registrations : RegisterTool(Registration)
    \/ \E ToolName \in ToolNames : \E bEnabled \in BOOLEAN : SetToolEnabled(ToolName, bEnabled)

RegistrySpec == Init /\ [][RegistryNext]_vars

(***************************************************************************)
(* One request through the dispatch path, over every command of the        *)
(* groups.  The starting states are those of a running bridge whose server *)
(* thread has accepted its first connection and read a request from it:    *)
(* Initialize() succeeded, a client connected, Run() accepted it, Wait()   *)
(* reported it readable and Recv() returned the request.                   *)
(***************************************************************************)
WideCommands ==
    RoutedOperations \cup UnroutedOperations
    \cup {Prefixes[i] : i \in 1..Len(Prefixes)}
    \cup {Prefixes[i] \o "fly" : i \in 1..Len(Prefixes)}
    \cup {"check_connection", "Check_Connection", "", "teleport", "actor", "ACTOR_LIST",
          "xactor_list"}

WideParams == { <<>>, << StringField("path", "/Game/New"), StringField("class", "Cube") >> }

WideRequests ==
    { RequestText(FALSE, <<>>, 7), RequestText(TRUE, << ObjectField("params", <<>>) >>, 13) }
    \cup { RequestText(TRUE,
                       << StringField("command", c) >>
                       \o (IF params = <<>> THEN <<>> ELSE << ObjectField("params", params) >>),
                       14 + Len(c) + (IF params = <<>> THEN 0 ELSE 46))
           : c \in WideCommands, params \in WideParams }

DispatchInit ==
    \E r \in WideRequests : \E p \in Ports :
        /\ bIsRunning = TRUE /\ Port = p /\ ListenerSocket = 1
        /\ ServerThread = TRUE /\ ServerRunnable = TRUE /\ PortFilePath = PortFileName
        /\ sockets = [i \in 1..MaxSockets |->
                         IF i = 1 THEN [st |-> "listening", port |-> p, held |-> TRUE]
                         ELSE NoSocket]
        /\ nSockets = 1 /\ portFile = WritePortFile(p)
        /\ spc = "process" /\ StopTaskCounter = 0 /\ rSocket = 1
        /\ conn = [NoConn EXCEPT !.id = 1, !.waited = "ready", !.recv = "data",
                                 !.BytesRead = r.bytes, !.request = r,
                                 !.RequestData = r]
        /\ backlog = 0 /\ nConns = 1 /\ openClients = {1}
        /\ gpc = "idle" /\ queue = <<>> /\ running = {}
        /\ api = Called("Initialize", "ok")
        /\ abandoned = {} /\ acceptedAfterStop = 0
        /\ FServiceContext
        /\ FGRIDEditorModule
        /\ FGRIDToolRegistry

DispatchNext ==
    \/ HandleProcess
    \/ ExecuteCommandReady
    \/ ExecuteCommandTimeout
    \/ HandleSend
    \/ RunClose
    \/ TaskBegin
    \/ \E h \in HostOutcomes : TaskEnd(h)

DispatchSpec == DispatchInit /\ [][DispatchNext]_vars

(***************************************************************************)
(* FServiceContext::GetConfigValue and SetConfigValue, called from any     *)
(* thread.  Nothing in the bridge calls them; the threads here are the     *)
(* callers the class is written for.  One step per blocking or non-atomic  *)
(* operation: the call, FScopeLock's constructor, the TMap operation (Add  *)
(* in two steps, the entry being half-written in between), and FScopeLock's*)
(* destructor with the return.                                             *)
(***************************************************************************)
everythingElse == <<bridgeVars, osVars, serverVars, clientVars, gameVars, api, histVars,
                    moduleVars, registryVars>>

GetConfigValueCall(t, Key, DefaultValue) ==
    /\ call[t].at = "idle"
    /\ call' = [call EXCEPT ![t] = [op |-> "get", at |-> "lock", Key |-> Key,
                                     Value |-> DefaultValue, ret |-> ""]]
    /\ UNCHANGED <<Lock, ConfigValues, committed, everythingElse>>

SetConfigValueCall(t, Key, Value) ==
    /\ call[t].at = "idle"
    /\ call' = [call EXCEPT ![t] = [op |-> "set", at |-> "lock", Key |-> Key,
                                     Value |-> Value, ret |-> ""]]
    /\ UNCHANGED <<Lock, ConfigValues, committed, everythingElse>>

\* a scope lock that does not wait for the critical section
ScopeLockNoWait == TRUE

\* FCriticalSection::Lock returns once no other thread is inside
ScopeLockFree == Lock = 0

\* FScopeLock ScopeLock(&Lock)
ScopeLockEnter(t) ==
    /\ call[t].at = "lock"
    /\ ScopeLockFree
    /\ Lock' = t
    /\ call' = [call EXCEPT ![t].at = "body"]
    /\ UNCHANGED <<ConfigValues, committed, everythingElse>>

\* ConfigValues.Find(Key); return Value ? *Value : DefaultValue.  Reading an
\* entry that another thread is writing is a data race: any value may come out.
GetConfigValueFind(t, raced) ==
    /\ call[t].at = "body" /\ call[t].op = "get"
    /\ LET Value == ConfigValues[call[t].Key] IN
       call' = [call EXCEPT ![t].at = "unlock",
                            ![t].ret = IF Value = Torn THEN raced
                                       ELSE IF Value = NoValue THEN call[t].Value
                                       ELSE Value]
    /\ UNCHANGED <<Lock, ConfigValues, committed, everythingElse>>

\* ConfigValues.Add(Key, Value) starts writing the entry
SetConfigValueAdd(t) ==
    /\ call[t].at = "body" /\ call[t].op = "set"
    /\ ConfigValues' = [ConfigValues EXCEPT ![call[t].Key] = Torn]
    /\ call' = [call EXCEPT ![t].at = "adding"]
    /\ UNCHANGED <<Lock, committed, everythingElse>>

\* ConfigValues.Add(Key, Value) has written the entry
SetConfigValueAdded(t) ==
    /\ call[t].at = "adding"
    /\ ConfigValues' = [ConfigValues EXCEPT ![call[t].Key] = call[t].Value]
    /\ call' = [call EXCEPT ![t].at = "unlock"]
    /\ UNCHANGED <<Lock, committed, everythingElse>>

\* ~FScopeLock, and the call returns
ScopeLockLeave(t) ==
    /\ call[t].at = "unlock"
    /\ Lock' = 0
    /\ call' = [call EXCEPT ![t] = NoCall]
    /\ committed' = IF call[t].op = "set"
                    THEN [committed EXCEPT ![call[t].Key] = call[t].Value]
                    ELSE committed
    /\ UNCHANGED <<ConfigValues, everythingElse>>

ConfigNext ==
    \/ \E t \in Threads, Key \in Keys, DefaultValue \in DefaultValues :
           GetConfigValueCall(t, Key, DefaultValue)
    \/ \E t \in Threads, Key \in Keys, Value \in Values : SetConfigValueCall(t, Key, Value)
    \/ \E t \in Threads : ScopeLockEnter(t)
    \/ \E t \in Threads, raced \in Values \cup DefaultValues : GetConfigValueFind(t, raced)
    \/ \E t \in Threads : SetConfigValueAdd(t)
    \/ \E t \in Threads : SetConfigValueAdded(t)
    \/ \E t \in Threads : ScopeLockLeave(t)

ConfigSpec == Init /\ [][ConfigNext]_vars

(***************************************************************************)
(* What a client reads off the wire.                                       *)
(***************************************************************************)
TextSuccess(text) == Len(text) >= 4 /\ SubSeq(text, 1, 4) = <<"{", "\"success\"", ":", "true">>
TextFailure(text) == Len(text) >= 4 /\ SubSeq(text, 1, 4) = <<"{", "\"success\"", ":", "false">>
TextHas(text, k, v) ==
    \E i \in 1..(Len(text) - 2) : text[i] = Quote(k) /\ text[i + 1] = ":" /\ text[i + 2] = v

\* the request of the connection being handled, as ProcessRequest reads it
Current == ProcessRequest(conn.RequestData)
IsCheckConnection == conn.recv = "data" /\ Current.dispatch /\ Current.command = "check_connection"
\* ProcessRequest has returned for the connection being handled
Returned == spc \in {"send", "close"}
\* no Initialize() or Shutdown() call is in progress
BetweenCalls == gpc \in {"idle", "task"}
InQueue(id) == \E i \in 1..Len(queue) : queue[i].id = id
TaskRunning(id) == \E t \in running : t.id = id

C2_Claim ==
    BetweenCalls =>
        /\ bIsRunning <=> (Port # 0 /\ portFile.exists)
        /\ ~bIsRunning => (Port = 0 /\ ~portFile.exists)

(***************************************************************************)
(* C3.  When the handling of a connection is over, a response was written  *)
(* exactly when the read returned at least one byte, and at most once; a   *)
(* failed read, an empty read and a read-wait timeout got none.            *)
(***************************************************************************)
C3_Claim ==
    spc = "close" =>
        /\ conn.writes = (IF conn.BytesRead > 0 THEN 1 ELSE 0)
        /\ conn.recv \in {"fail", "zero"} => conn.writes = 0
        /\ conn.waited = "timeout" => conn.writes = 0

(***************************************************************************)
(* C4.  ExecuteCommand returns the text its task set on the promise, which *)
(* is the serialized RouteCommand result for its own command, when that    *)
(* text was there before the wait expired, and the TIMEOUT text otherwise; *)
(* never TIMEOUT when the result was already there.                        *)
(***************************************************************************)
RouteResults(command, params) == {Serialize(RouteCommand(command, params, h)) : h \in HostOutcomes}

C4_Returns ==
    (spc = "future" /\ spc' = "send") =>
        IF conn.future # <<>>
        THEN conn'.resp = conn.future /\ conn'.resp # TimeoutText
        ELSE conn'.resp = TimeoutText

C4_FutureIsOwnResult ==
    conn.future # <<>> =>
        /\ conn.enqueued /\ conn.src = conn.id
        /\ conn.future \in RouteResults(Current.command, Current.params)

C4_Theorem == [][C4_Returns]_vars /\ []C4_FutureIsOwnResult

C4_Witness ==
    /\ spc = "send" /\ conn.future # <<>> /\ conn.resp = conn.future
    /\ TextHas(conn.resp, "error_code", "\"NOT_IMPLEMENTED\"")

(***************************************************************************)
(* C5.  A task whose waiter timed out is not withdrawn: it stays queued    *)
(* until the owner thread starts it, RouteCommand then runs for it, and    *)
(* what it produces reaches no connection.                                 *)
(***************************************************************************)
C5_StaysQueued ==
    \A id \in abandoned : InQueue(id) => (InQueue(id)' \/ TaskRunning(id)')

C5_LateResultDropped ==
    \A t \in running :
        (t.id \in abandoned /\ t \notin running') =>
            /\ conn'.future = conn.future /\ conn'.resp = conn.resp
            /\ conn'.writes = conn.writes /\ conn'.src = conn.src

C5_Pending ==
    \A id \in abandoned :
        /\ InQueue(id) \/ TaskRunning(id)
        /\ conn.src # id
        /\ conn.id = id => (conn.future = <<>> /\ conn.resp = TimeoutText)

C5_Theorem == [][C5_StaysQueued /\ C5_LateResultDropped]_vars /\ []C5_Pending

C5_Witness ==
    \E t \in running : t.id \in abandoned /\ t.id \notin openClients /\ conn.id # t.id

(***************************************************************************)
(* C6.  At most one client connection is open; while the loop polls or     *)
(* accepts, none is: the previous one has been read, dispatched, answered  *)
(* and closed.                                                             *)
(***************************************************************************)
C6_Theorem ==
    /\ Cardinality(openClients) <= 1
    /\ spc \in {"loop", "poll", "accept"} => openClients = {}
    /\ openClients # {} => openClients = {conn.id}

C6_Witness == spc = "future" /\ backlog = 1 /\ openClients = {conn.id} /\ conn.enqueued

(***************************************************************************)
(* C7.  The owner thread starts tasks in submission order, the abandoned   *)
(* ones included, and runs one at a time.                                  *)
(***************************************************************************)
C7_InOrder ==
    \A t \in running' \ running : \A i \in 1..Len(queue) : t.id <= queue[i].id

C7_OneAtATime == Cardinality(running) <= 1

C7_Theorem == [][C7_InOrder]_vars /\ []C7_OneAtATime

C7_Witness ==
    \E t \in running :
        /\ t.id \in abandoned
        /\ queue # <<>>
        /\ \A i \in 1..Len(queue) : queue[i].id > t.id

(***************************************************************************)
(* C8.  Initialize() on a running bridge changes nothing: no socket is     *)
(* created or bound, no thread started, port and discovery file stay, and  *)
(* the bridge stays running.                                               *)
(***************************************************************************)
InitializeCalled == api' # api /\ api'.op = "Initialize"

C8_NoChange ==
    (InitializeCalled /\ bIsRunning) =>
        /\ bIsRunning'
        /\ UNCHANGED <<bridgeVars, osVars, serverVars, clientVars, gameVars>>

C8_Theorem == [][C8_NoChange]_vars

C8_Witness ==
    /\ api = [op |-> "Initialize", path |-> "already_running"]
    /\ bIsRunning /\ nSockets = 1 /\ spc # "exited"

(***************************************************************************)
(* C9.  After any Shutdown() call has returned, whatever Initialize()      *)
(* outcome came before it, the server thread has exited, no listener is    *)
(* open and the discovery file is absent.                                  *)
(***************************************************************************)
ShutdownReturned == api.op = "Shutdown" /\ BetweenCalls

C9_Claim ==
    ShutdownReturned =>
        /\ spc \in {"none", "exited"}
        /\ \A i \in 1..MaxSockets : sockets[i].st \in {"unused", "closed"}
        /\ ~portFile.exists

(***************************************************************************)
(* C10.  After an Initialize() whose socket was bound and listens, the     *)
(* discovery file exists and holds the decimal form of GetPort(), the port *)
(* the listener is bound to, until Shutdown(); after Shutdown() the file   *)
(* does not exist.  (The file is published when the socket listens, so the *)
(* case is an Initialize() that got as far as Listen succeeding.)          *)
(***************************************************************************)
Published == api.op = "Initialize" /\ api.path \in {"thread_fail", "ok", "already_running"}

C10_Claim ==
    /\ Published =>
          /\ portFile.exists /\ portFile.content = FromInt(Port)
          /\ ListenerSocket # 0 /\ sockets[ListenerSocket].port = Port
    /\ ShutdownReturned => ~portFile.exists

(***************************************************************************)
(* C11.  The discovery file exists only while a server thread has been     *)
(* created for the bridge; a failed thread creation leaves no file.        *)
(***************************************************************************)
C11_Claim == portFile.exists => ServerThread

(***************************************************************************)
(* C12.  An Initialize() that fails at the socket subsystem, at creating,  *)
(* binding or listening returns with the bridge not running, no server     *)
(* thread started, the discovery file as it was, and at most the one       *)
(* socket it tried with.                                                   *)
(***************************************************************************)
SocketFailures == {"no_subsystem", "create_fail", "bind_fail", "listen_fail"}

C12_FailedStart ==
    (InitializeCalled /\ api'.path \in SocketFailures) =>
        /\ ~bIsRunning'
        /\ ~ServerThread' /\ spc' = spc /\ ServerRunnable' = ServerRunnable
        /\ portFile' = portFile /\ PortFilePath' = PortFilePath
        /\ nSockets' <= nSockets + 1
        /\ \A i \in 1..MaxSockets : sockets'[i].st = "listening" => sockets[i].st = "listening"

C12_Theorem == [][C12_FailedStart]_vars

C12_Witness ==
    /\ api = [op |-> "Initialize", path |-> "listen_fail"]
    /\ ListenerSocket # 0 /\ sockets[ListenerSocket].st = "bound"
    /\ ~bIsRunning /\ ~portFile.exists /\ spc = "none"

(***************************************************************************)
(* C13.  The server thread makes no poll and no accept on a listener that  *)
(* Shutdown() has already closed and destroyed.                            *)
(***************************************************************************)
C13_Step ==
    (spc \in {"poll", "accept"} /\ spc' # spc) => sockets[rSocket].st # "closed"

C13_Claim == [][C13_Step]_vars

(***************************************************************************)
(* C14.  A Shutdown() that got past its guard returns, with the server     *)
(* thread exited, whatever the connection being handled is doing.          *)
(***************************************************************************)
C14_Claim == (gpc = "sd_close") ~> (gpc = "idle" /\ spc = "exited")

(***************************************************************************)
(* C15.  After the 5 s readability wait has expired the connection is      *)
(* abandoned: no read is attempted and no response is sent.                *)
(***************************************************************************)
C15_Claim == conn.waited = "timeout" => (conn.recv = "none" /\ conn.writes = 0)

(***************************************************************************)
(* C16.  A request that is not a JSON object, or is one without a command  *)
(* field, is answered by ProcessRequest itself with a success = false      *)
(* text: ExecuteCommand is not called and no task is queued for it.        *)
(***************************************************************************)
ProtocolError(req) == ~req.wellFormed \/ ~HasField(req.fields, "command")

C16_Theorem ==
    (conn.recv = "data" /\ ProtocolError(conn.request)) =>
        /\ ~conn.enqueued /\ spc # "future"
        /\ ~InQueue(conn.id) /\ ~TaskRunning(conn.id)
        /\ Returned =>
              /\ TextFailure(conn.resp)
              /\ conn.resp = IF conn.request.wellFormed THEN MissingCommandText
                             ELSE InvalidJsonText

C16_Witness ==
    /\ spc = "close" /\ conn.writes = 1
    /\ conn.request.wellFormed /\ conn.resp = MissingCommandText
    /\ queue = <<>> /\ running = {}

(***************************************************************************)
(* The members of a response text: the positions of its top-level keys.    *)
(***************************************************************************)
RECURSIVE TopKeysFrom(_, _, _)
TopKeysFrom(text, i, depth) ==
    IF i > Len(text) THEN <<>>
    ELSE IF text[i] = "{" THEN TopKeysFrom(text, i + 1, depth + 1)
    ELSE IF text[i] = "}" THEN TopKeysFrom(text, i + 1, depth - 1)
    ELSE IF depth = 1 /\ i < Len(text) /\ text[i + 1] = ":"
    THEN <<i>> \o TopKeysFrom(text, i + 1, depth)
    ELSE TopKeysFrom(text, i + 1, depth)

WellShaped(text) ==
    LET at == TopKeysFrom(text, 1, 0)
        keys == {text[at[k]] : k \in 1..Len(at)}
        Value(key) == text[at[CHOOSE k \in 1..Len(at) : text[at[k]] = key] + 2]
    IN /\ Len(text) >= 2 /\ text[1] = "{" /\ text[Len(text)] = "}"
       /\ Len(at) = Cardinality(keys)
       /\ Quote("success") \in keys
       /\ \/ /\ Value(Quote("success")) = "true"
             /\ keys \subseteq {Quote("success"), Quote("data")}
             /\ Quote("data") \in keys => Value(Quote("data")) = "{"
          \/ /\ Value(Quote("success")) = "false"
             /\ keys = {Quote("success"), Quote("error_code"), Quote("error")}

(***************************************************************************)
(* C17.  Every response text, whichever layer built it, has a boolean      *)
(* success member and one shape: success true with at most a data object   *)
(* beside it, or success false with exactly error_code and error.          *)
(***************************************************************************)
C17_Theorem ==
    /\ Returned => WellShaped(conn.resp)
    /\ conn.future # <<>> => WellShaped(conn.future)

C17_Witness ==
    /\ spc = "close" /\ conn.writes = 1
    /\ Current.command = "blueprint_create"
    /\ TextSuccess(conn.resp) /\ TextHas(conn.resp, "path", Quote("/Game/New"))

(***************************************************************************)
(* C18.  A command that is not check_connection and starts with none of    *)
(* the six prefixes, the empty command included, gets the router's own     *)
(* UNKNOWN_COMMAND answer: no handler group is called.                     *)
(***************************************************************************)
StartsWithExact(s, p) == Len(s) >= Len(p) /\ SubSeq(s, 1, Len(p)) = p

RouterUnknown(command) ==
    Serialize(CreateErrorResponse("UNKNOWN_COMMAND", "Unknown command: " \o command))

IsRouterUnknown(text, command) ==
    /\ TextFailure(text) /\ TextHas(text, "error_code", Quote("UNKNOWN_COMMAND"))
    /\ text = RouterUnknown(command)

C18_Original ==
    ( /\ Current.dispatch /\ conn.future # <<>>
      /\ Current.command # "check_connection"
      /\ \A i \in 1..Len(Prefixes) : ~StartsWithExact(Current.command, Prefixes[i]) )
    => IsRouterUnknown(conn.future, Current.command)

\* C18 as amended: the command is compared ignoring case, so it is a command
\* that in no letter case is check_connection or starts with a prefix that
\* gets the router's UNKNOWN_COMMAND.
C18_Amended ==
    ( /\ Current.dispatch /\ conn.future # <<>>
      /\ ToLower(Current.command) # "check_connection"
      /\ \A i \in 1..Len(Prefixes) : ~StartsWithExact(ToLower(Current.command), Prefixes[i]) )
    => IsRouterUnknown(conn.future, Current.command)

C18_Witness ==
    /\ Current.dispatch /\ Current.command = ""
    /\ spc = "close" /\ conn.writes = 1 /\ conn.resp = RouterUnknown("")

(***************************************************************************)
(* C19.  For a command that starts with a registered prefix, the group     *)
(* answers UNKNOWN_COMMAND exactly when the command names none of the      *)
(* operations the group declares, and NOT_IMPLEMENTED when it names a      *)
(* declared operation that is a stub.                                      *)
(***************************************************************************)
C19_Claim ==
    ( /\ Current.dispatch /\ conn.future # <<>>
      /\ \E i \in 1..Len(Prefixes) : StartsWithExact(Current.command, Prefixes[i]) )
    => /\ TextHas(conn.future, "error_code", Quote("UNKNOWN_COMMAND"))
             <=> Current.command \notin (RoutedOperations \cup UnroutedOperations)
       /\ Current.command \in (StubOperations \cup UnroutedOperations)
             => TextHas(conn.future, "error_code", Quote("NOT_IMPLEMENTED"))

(***************************************************************************)
(* C20.  The error_code of every failure response is one of the codes of   *)
(* GRID::ErrorCodes.                                                       *)
(***************************************************************************)
ErrorCodes ==
    { "PARAM_MISSING", "PARAM_INVALID", "PARAM_EMPTY", "PARAM_TYPE_MISMATCH",
      "BLUEPRINT_NOT_FOUND", "BLUEPRINT_LOAD_FAILED", "BLUEPRINT_COMPILATION_FAILED",
      "BLUEPRINT_CREATE_FAILED", "BLUEPRINT_INVALID_PARENT",
      "VARIABLE_NOT_FOUND", "VARIABLE_ALREADY_EXISTS", "VARIABLE_CREATE_FAILED",
      "COMPONENT_NOT_FOUND", "COMPONENT_TYPE_INVALID", "COMPONENT_ADD_FAILED",
      "PROPERTY_NOT_FOUND", "PROPERTY_READ_ONLY", "PROPERTY_SET_FAILED",
      "NODE_NOT_FOUND", "NODE_CREATE_FAILED", "PIN_NOT_FOUND", "PIN_CONNECTION_FAILED",
      "WIDGET_NOT_FOUND", "WIDGET_CREATE_FAILED", "WIDGET_TYPE_INVALID",
      "ASSET_NOT_FOUND", "ASSET_LOAD_FAILED", "ASSET_SAVE_FAILED", "ASSET_DELETE_FAILED",
      "ACTOR_NOT_FOUND", "ACTOR_SPAWN_FAILED", "ACTOR_DELETE_FAILED",
      "MATERIAL_NOT_FOUND", "MATERIAL_CREATE_FAILED", "EXPRESSION_NOT_FOUND",
      "UNKNOWN_COMMAND", "NOT_IMPLEMENTED", "INTERNAL_ERROR", "TIMEOUT", "NO_WORLD",
      "EDITOR_NOT_AVAILABLE" }

C20_Claim ==
    (Returned /\ TextFailure(conn.resp)) =>
        \E code \in ErrorCodes : TextHas(conn.resp, "error_code", Quote(code))


(***************************************************************************)
(* C21.  Under any interleaving of GetConfigValue and SetConfigValue calls *)
(* from any threads, at most one call is inside the critical section, and  *)
(* GetConfigValue(Key, DefaultValue) returns the value of the latest       *)
(* SetConfigValue on Key that returned before it, or DefaultValue when     *)
(* there was none.                                                         *)
(***************************************************************************)
Inside(t) == call[t].at \in {"body", "adding", "unlock"}

C21_OneAtATime == \A t, u \in Threads : Inside(t) /\ Inside(u) => t = u

C21_LatestSet ==
    \A t \in Threads :
        call[t].op = "get" /\ call[t].at = "unlock" =>
            call[t].ret = IF committed[call[t].Key] = NoValue THEN call[t].Value
                          ELSE committed[call[t].Key]

C21_Theorem == C21_OneAtATime /\ C21_LatestSet

\* a GetConfigValue that found the value another thread set, while a third
\* call waits at the lock
C21_Witness ==
    \E t, u \in Threads :
        /\ t # u
        /\ call[t].op = "get" /\ call[t].at = "unlock"
        /\ call[t].Value = "d" /\ call[t].ret = ""
        /\ committed[call[t].Key] = ""
        /\ call[u].op = "set" /\ call[u].at = "lock" /\ call[u].Key = call[t].Key

(***************************************************************************)
(* C22.  For every read that returns n > 0 bytes, a client that sent more  *)
(* than 65536 bytes included, the server reads once, at most 65536 bytes,  *)
(* treats exactly the n received bytes and nothing that lies beyond them   *)
(* in the buffer as the request text, and writes one response.             *)
(***************************************************************************)
C22_Claim ==
    (conn.recv = "data" /\ conn.BytesRead > 0) =>
        /\ conn.BytesRead <= BufferSize
        /\ conn.RequestData.chars = conn.request.chars
        /\ conn.RequestData.tail = ""
        /\ conn.writes <= 1
        /\ spc = "close" => conn.writes = 1

(***************************************************************************)
(* C23.  RouteCommand and the handler groups run only on the game thread:  *)
(* a routed result comes into being only in a step of the game thread's    *)
(* task for that connection, in which the server thread stands still, and  *)
(* what the server thread itself produces is a protocol error, the TIMEOUT *)
(* error or the result the task handed over.                               *)
(***************************************************************************)
C23_RoutedOnGameThread ==
    (conn'.future # conn.future /\ conn'.future # <<>>) =>
        /\ gpc = "task"
        /\ spc' = spc
        /\ \E t \in running :
              /\ t.id = conn.id
              /\ \E h \in HostOutcomes :
                    conn'.future = Serialize(RouteCommand(t.command, t.params, h))

C23_ServerThreadRoutesNothing ==
    (spc' # spc /\ conn'.resp # conn.resp /\ conn'.resp # <<>>) =>
        \/ conn'.resp \in {InvalidJsonText, MissingCommandText, TimeoutText}
        \/ conn.future # <<>> /\ conn'.resp = conn.future

C23_Theorem == [][C23_RoutedOnGameThread /\ C23_ServerThreadRoutesNothing]_vars

\* the game thread has routed actor_delete for the server thread, which waits
C23_Witness ==
    /\ spc = "future" /\ conn.future # <<>> /\ gpc = "idle"
    /\ Current.dispatch /\ Current.command = "actor_delete"
    /\ TextHas(conn.future, "error_code", "\"NOT_IMPLEMENTED\"")

(***************************************************************************)
(* C24.  All JSON parsing and serialization happen on the server thread:   *)
(* the game thread never parses a request and never serializes a response. *)
(* A request is parsed, and a serialized response text comes into being,   *)
(* only in a step of the server thread.                                    *)
(***************************************************************************)
C24_SerializedByServerThread ==
    (conn'.future # conn.future /\ conn'.future # <<>>) => spc' # spc

C24_ParsedByServerThread ==
    (Len(queue') > Len(queue) \/ (conn'.resp # conn.resp /\ conn'.resp # <<>>)) => spc' # spc

C24_Claim == [][C24_SerializedByServerThread /\ C24_ParsedByServerThread]_vars

(***************************************************************************)
(* C25.  Shutdown() of a running bridge sets the stop flag, then closes    *)
(* the listening socket, then joins the server thread, then deletes the    *)
(* discovery file: the listening socket is never closed before the stop    *)
(* flag is set, and Shutdown() never returns while the server thread is    *)
(* still running.                                                          *)
(***************************************************************************)
ServerThreadRunning == spc \notin {"none", "exited"}

C25_StopFirst == (gpc = "idle" /\ gpc' = "sd_close") => StopTaskCounter' # 0

C25_CloseAfterStop ==
    \A i \in 1..MaxSockets :
        (sockets[i].st = "listening" /\ sockets'[i].st = "closed") =>
            gpc = "sd_close" /\ gpc' = "sd_join" /\ StopTaskCounter # 0

C25_JoinAfterClose ==
    (gpc = "sd_join" /\ gpc' = "idle") =>
        /\ ListenerSocket = 0 /\ sockets[rSocket].st = "closed"
        /\ ~ServerThreadRunning /\ ~ServerThread'

C25_DeleteLast ==
    (portFile.exists /\ ~portFile'.exists) =>
        gpc = "sd_join" /\ gpc' = "idle" /\ ~ServerThreadRunning

C25_Theorem ==
    [][C25_StopFirst /\ C25_CloseAfterStop /\ C25_JoinAfterClose /\ C25_DeleteLast]_vars

\* Shutdown() has returned from a bridge whose server thread had served a client
C25_Witness ==
    /\ api = Called("Shutdown", "ran") /\ gpc = "idle"
    /\ spc = "exited" /\ StopTaskCounter = 1 /\ nConns = 1
    /\ ~portFile.exists /\ ~ServerThread /\ sockets[rSocket].st = "closed"

(***************************************************************************)
(* C26.  Once the accept loop has observed the stop flag it never polls or *)
(* accepts again, so after Stop() has been called at most one further      *)
(* connection is accepted by that server.                                  *)
(***************************************************************************)
C26_ObservedStop ==
    /\ (spc = "loop" /\ StopTaskCounter # 0) => spc' \in {"loop", "exited"}
    /\ (spc = "exited" /\ spc' # "exited") =>
            (api' = Called("Initialize", "ok") /\ StopTaskCounter' = 0)

C26_Theorem == [](acceptedAfterStop <= 1) /\ [][C26_ObservedStop]_vars

\* the loop was already polling when Stop() was called, and accepted a client
C26_Witness ==
    /\ acceptedAfterStop = 1 /\ StopTaskCounter = 1
    /\ spc = "exited" /\ gpc = "sd_join" /\ nConns = 2 /\ openClients = {}

(***************************************************************************)
(* C27.  The accept loop leaves the listening state only because Stop()    *)
(* was called: a failed poll, a poll with no pending connection, a failed  *)
(* accept, a failed or empty read, a failed write or an error response     *)
(* never ends the loop, which goes back to polling.                        *)
(***************************************************************************)
C27_OnlyStopEnds ==
    (spc # "exited" /\ spc' = "exited") => (spc = "loop" /\ StopTaskCounter # 0)

C27_BackToPolling ==
    /\ (spc = "loop" /\ StopTaskCounter = 0 /\ spc' # spc) => spc' = "poll"
    /\ (spc = "poll" /\ spc' # spc) => spc' \in {"accept", "loop"}
    /\ (spc = "accept" /\ spc' # spc) => spc' \in {"wait", "loop"}
    /\ (spc = "recv" /\ spc' # spc) => spc' \in {"process", "close"}
    /\ (spc = "send" /\ spc' # spc) => spc' = "close"
    /\ (spc = "close" /\ spc' # spc) => spc' = "loop"

C27_Theorem == [][C27_OnlyStopEnds /\ C27_BackToPolling]_vars

\* a client was accepted, its read failed, and the loop polls again
C27_Witness ==
    /\ spc = "poll" /\ StopTaskCounter = 0 /\ bIsRunning
    /\ nConns = 1 /\ openClients = {} /\ conn = NoConn /\ backlog = 1

(***************************************************************************)
(* C28.  When Shutdown() is called while a connection is being processed,  *)
(* Shutdown() does not close or abort that client connection: the server   *)
(* thread finishes the read, dispatch and response write for it and closes *)
(* it itself before exiting.                                               *)
(***************************************************************************)
InShutdown == gpc \in {"sd_close", "sd_join"}

C28_ShutdownLeavesClient ==
    (gpc' # gpc /\ (InShutdown \/ InShutdown')) =>
        (conn' = conn /\ openClients' = openClients /\ spc' = spc)

C28_ServerThreadCloses ==
    \A id \in openClients \ openClients' :
        /\ spc = "close" /\ spc' = "loop" /\ id = conn.id
        /\ conn.recv = "data" => conn.writes = 1

C28_ClosedBeforeExit ==
    (spc # "exited" /\ spc' = "exited") => (conn = NoConn /\ openClients = {})

C28_Theorem ==
    [][C28_ShutdownLeavesClient /\ C28_ServerThreadCloses /\ C28_ClosedBeforeExit]_vars

\* Shutdown() waits in the join while the server thread, having written the
\* response of the connection it had accepted before Stop(), is about to close it
C28_Witness ==
    /\ gpc = "sd_join" /\ StopTaskCounter = 1 /\ acceptedAfterStop = 0
    /\ spc = "close" /\ conn.id \in openClients
    /\ conn.recv = "data" /\ conn.writes = 1

(***************************************************************************)
(* C29.  Every accepted client socket is closed and destroyed exactly      *)
(* once, after its handling returns and before the next poll, on every     *)
(* path: response sent, write failed, read failed, zero bytes read, or     *)
(* read-wait timeout.                                                      *)
(***************************************************************************)
C29_Accepted ==
    (nConns' # nConns) =>
        (nConns' = nConns + 1 /\ nConns' \notin openClients
         /\ openClients' = openClients \cup {nConns'})

C29_EveryPathCloses ==
    /\ (spc = "recv" /\ spc' # spc) => spc' = IF conn'.recv = "data" THEN "process" ELSE "close"
    /\ (spc = "send" /\ spc' # spc) => (spc' = "close" /\ conn'.writes = 1)
    /\ (spc = "close" /\ spc' # spc) =>
            /\ spc' = "loop"
            /\ conn.id \in openClients
            /\ openClients' = openClients \ {conn.id}

C29_ClosedOnce ==
    /\ (openClients' # openClients) => (nConns' # nConns \/ spc = "close")
    /\ \A id \in 1..nConns : id \notin openClients => id \notin openClients'

C29_BeforeNextPoll == (spc # "poll" /\ spc' = "poll") => openClients = {}

C29_Theorem ==
    [][C29_Accepted /\ C29_EveryPathCloses /\ C29_ClosedOnce /\ C29_BeforeNextPoll]_vars

\* two clients were accepted, and both are closed when the loop polls again
C29_Witness ==
    /\ spc = "poll" /\ StopTaskCounter = 0 /\ nConns = 2 /\ openClients = {} /\ conn = NoConn

(***************************************************************************)
(* C30.  After Shutdown() of a running bridge returns, every resource      *)
(* Initialize() acquired has been released exactly once: the listening     *)
(* socket is closed and destroyed and nothing still holds a reference to   *)
(* it, the server thread object is deleted, and the server runnable        *)
(* object is freed.                                                        *)
(***************************************************************************)
\* the runnable that was given the socket has been deleted, and its
\* TSharedPtr<FSocket> member with it
RunnableFreed(s) == ~sockets[s].held

C30_Claim ==
    (api = Called("Shutdown", "ran") /\ gpc = "idle") =>
        /\ ListenerSocket = 0 /\ sockets[rSocket].st = "closed"
        /\ ~ServerThread /\ spc = "exited"
        /\ ~ServerRunnable /\ RunnableFreed(rSocket)

(***************************************************************************)
(* C31.  For every command, RouteCommand calls at most one handler group,  *)
(* and it is the group of the first prefix, in the order blueprint_,       *)
(* actor_, material_, widget_, asset_, input_, that the command starts     *)
(* with; the params it hands to that group are the params it received,     *)
(* unchanged.                                                              *)
(***************************************************************************)
\* the i-th handler group, in the order of the router's prefix tests
GroupHandleCommand(i, CommandType, Params, h) ==
    CASE i = 1 -> BlueprintHandleCommand(CommandType, Params, h)
      [] i = 2 -> ActorHandleCommand(CommandType, Params, h)
      [] i = 3 -> MaterialHandleCommand(CommandType, Params, h)
      [] i = 4 -> WidgetHandleCommand(CommandType, Params, h)
      [] i = 5 -> AssetHandleCommand(CommandType, Params, h)
      [] i = 6 -> InputHandleCommand(CommandType, Params, h)

\* the text is what the i-th group answers to the command with these params
AnsweredByGroup(text, i, CommandType, Params) ==
    \E h \in HostOutcomes : text = Serialize(GroupHandleCommand(i, CommandType, Params, h))

\* the result is that of the first group among `matching`, called with the
\* params received, and of no other group; of no group when none matches
FirstPrefixWins(matching) ==
    IF matching = {}
    THEN \A i \in 1..Len(Prefixes) :
            ~AnsweredByGroup(conn.future, i, Current.command, Current.params)
    ELSE LET first == CHOOSE i \in matching : \A j \in matching : i <= j IN
         /\ AnsweredByGroup(conn.future, first, Current.command, Current.params)
         /\ \A i \in 1..Len(Prefixes) \ {first} :
                ~AnsweredByGroup(conn.future, i, Current.command, Current.params)

\* "starts with" read letter for letter
C31_Original ==
    (Current.dispatch /\ conn.future # <<>> /\ Current.command # "check_connection") =>
        FirstPrefixWins({i \in 1..Len(Prefixes) : StartsWithExact(Current.command, Prefixes[i])})

\* C31 as amended: the first prefix the command starts with, letter case
\* ignored, names the one group that is called, with the params as received;
\* check_connection, in any letter case, calls none.
C31_Amended ==
    (Current.dispatch /\ conn.future # <<>>) =>
        FirstPrefixWins(IF Equals(Current.command, "check_connection") THEN {}
                        ELSE {i \in 1..Len(Prefixes) : StartsWith(Current.command, Prefixes[i])})

\* blueprint_create reached the blueprint group with the path the client sent
C31_Witness ==
    /\ Current.dispatch /\ Current.command = "blueprint_create"
    /\ GetStringField(Current.params, "path") = "/Game/New"
    /\ conn.future # <<>> /\ TextSuccess(conn.future)
    /\ AnsweredByGroup(conn.future, 1, Current.command, Current.params)

(***************************************************************************)
(* C32.  At any time at most one task submitted by ExecuteCommand is       *)
(* outstanding: submitted to the game thread and not yet finished there.   *)
(***************************************************************************)
Outstanding == {queue[i].id : i \in 1..Len(queue)} \cup {t.id : t \in running}

C32_Claim == Len(queue) + Cardinality(running) <= 1 /\ Cardinality(Outstanding) <= 1

(***************************************************************************)
(* C33.  No task submitted by ExecuteCommand runs RouteCommand on a bridge *)
(* after that bridge's Shutdown() has returned: in particular a task       *)
(* abandoned by a timeout never executes against a bridge that was shut    *)
(* down or destroyed.                                                      *)
(***************************************************************************)
C33_Claim == (api = Called("Shutdown", "ran") /\ BetweenCalls) => running = {}

(***************************************************************************)
(* C34.  When Shutdown() runs on the game thread while the server thread   *)
(* is waiting in ExecuteCommand for a task that has not started, the two   *)
(* threads do not deadlock: the task cannot run before Shutdown() returns, *)
(* so the wait ends by timeout, the client is sent the TIMEOUT response,   *)
(* and only then does the join in Shutdown() complete.                     *)
(***************************************************************************)
WaitingForUnstartedTask ==
    InShutdown /\ spc = "future" /\ conn.future = <<>> /\ InQueue(conn.id)

C34_TaskCannotRun == InShutdown => (running' = running /\ Len(queue') >= Len(queue))

C34_WaitEndsByTimeout ==
    (WaitingForUnstartedTask /\ spc' # spc) => (spc' = "send" /\ conn'.resp = TimeoutText)

C34_TimeoutSent ==
    (InShutdown /\ InQueue(conn.id) /\ spc = "close") =>
        (conn.resp = TimeoutText /\ conn.writes = 1)

C34_JoinLast ==
    (gpc = "sd_join" /\ gpc' = "idle") => (spc = "exited" /\ conn = NoConn)

C34_Theorem ==
    /\ [][C34_TaskCannotRun /\ C34_WaitEndsByTimeout /\ C34_JoinLast]_vars
    /\ [](C34_TimeoutSent)
    /\ (WaitingForUnstartedTask ~> (gpc = "idle" /\ spc = "exited"))

\* the join waits; the server thread has given up on the queued task and has
\* written the TIMEOUT response
C34_Witness ==
    /\ gpc = "sd_join" /\ spc = "close" /\ InQueue(conn.id)
    /\ conn.resp = TimeoutText /\ conn.writes = 1

(***************************************************************************)
(* C35.  When server-thread creation fails in Initialize(), the cleanup it *)
(* invokes closes and destroys the listening socket that was bound and     *)
(* frees the runnable: the failed Initialize() leaves no open socket and   *)
(* no allocated runnable behind.                                           *)
(***************************************************************************)
OpenSockets == {i \in 1..MaxSockets : sockets[i].st \in {"created", "bound", "listening"}}

C35_Claim ==
    api = Called("Initialize", "thread_fail") =>
        /\ OpenSockets = {} /\ ListenerSocket = 0
        /\ ~ServerRunnable /\ \A i \in 1..MaxSockets : RunnableFreed(i)

(***************************************************************************)
(* C36.  The module's running flag agrees with the bridge: after           *)
(* StartServer() and StopServer() calls in any order and whatever the      *)
(* outcome of Bridge->Initialize(), FGRIDEditorModule::bIsRunning is true  *)
(* only if Bridge->IsRunning() is true.                                    *)
(***************************************************************************)
C36_Claim == (mpc = "idle" /\ ModuleIsRunning) => bIsRunning

(***************************************************************************)
(* C37.  Across any sequence of Initialize() and Shutdown() calls made     *)
(* from one thread, including failed initializations followed by retries,  *)
(* a bridge never has more than one live server thread nor more than one   *)
(* open listening socket.  The server thread of the bridge is the one      *)
(* thread at spc, so the count of threads is the part that cannot fail;    *)
(* the sockets are counted.                                                *)
(***************************************************************************)
ListeningSockets == {i \in 1..MaxSockets : sockets[i].st = "listening"}

C37_Claim ==
    /\ Cardinality(ListeningSockets) <= 1
    /\ ServerThreadRunning => ServerThread

(***************************************************************************)
(* C38.  A bridge can be restarted: after Initialize() succeeds,           *)
(* Shutdown() returns and Initialize() succeeds again, the bridge is       *)
(* running with a new accept loop whose stop flag is clear, that loop      *)
(* accepts connections, and the discovery file holds the newly bound port. *)
(* A closed socket that a runnable still refers to is the listener of an   *)
(* earlier successful Initialize() that Shutdown() has destroyed.          *)
(***************************************************************************)
Restarted ==
    /\ api = Called("Initialize", "ok")
    /\ \E i \in 1..MaxSockets : sockets[i].st = "closed" /\ sockets[i].held

C38_Theorem ==
    Restarted =>
        /\ bIsRunning /\ ServerThread /\ ServerRunnable
        /\ ServerThreadRunning
        /\ StopTaskCounter = 0
        /\ ListenerSocket # 0 /\ rSocket = ListenerSocket
        /\ sockets[ListenerSocket].st = "listening"
        /\ Port = sockets[ListenerSocket].port
        /\ portFile = [exists |-> TRUE, content |-> FromInt(Port)]
        /\ (conn # NoConn => conn.id \in 1..nConns)

\* the restarted loop has accepted a connection
C38_Witness == Restarted /\ spc = "wait" /\ conn.id = nConns /\ nConns >= 1

(***************************************************************************)
(* C39.  FGRIDToolRegistry::Shutdown() returns the registry to its initial *)
(* empty state: afterwards no tool is registered, and every tool name that *)
(* is registered again is enabled, whatever SetToolEnabled calls preceded  *)
(* the shutdown.                                                           *)
(***************************************************************************)
C39_NoToolRegistered ==
    rcall = "Shutdown" =>
        /\ GetAllTools = <<>>
        /\ \A n \in ToolNames : FindTool(n) = NoTool /\ ExecuteTool(n) = UnknownTool

\* no SetToolEnabled call since the shutdown: what the registry holds was
\* registered again after it
C39_RegisteredAgainEnabled ==
    sinceShutdown = "clean" =>
        \A i \in 1..Len(Tools) : IsToolEnabled(Tools[i].Name)

C39_Claim == C39_NoToolRegistered /\ C39_RegisteredAgainEnabled

(***************************************************************************)
(* C40.  After any sequence of RegisterTool calls, including repeated      *)
(* registration of the same name, the registry holds exactly one entry per *)
(* distinct tool name: GetAllTools() lists each name once, and             *)
(* FindTool(name) and ExecuteTool(name) refer to the same registration.    *)
(***************************************************************************)
C40_EachNameOnce ==
    \A i, j \in 1..Len(GetAllTools) :
        GetAllTools[i].Name = GetAllTools[j].Name => i = j

C40_SameRegistration ==
    \A i \in 1..Len(Tools) :
        LET n == Tools[i].Name
        IN  /\ FindTool(n) # NoTool
            /\ IsToolEnabled(n) => ExecuteTool(n) = Ran(FindTool(n).Description)

C40_Claim == C40_EachNameOnce /\ C40_SameRegistration
====
